---- MODULE Spec2Model ----
(***************************************************************************)
(* Model of the pull-stream loops of src/basic/while-let.rs:               *)
(*   - the batch-driving loop over DataBatch (section 8, lines 541-610),   *)
(*   - the run-length scan over a peekable iterator (section 10, 665-684), *)
(*   - the peekable iterator itself under free peek/next interleavings,    *)
(*   - the cursor streams DataSource, TaskQueue and TokenStream.           *)
(* Each component has its own specification; the variables of the other    *)
(* components stay at their idle values.                                   *)
(***************************************************************************)
EXTENDS Integers, Sequences, FiniteSets, TLC

VARIABLES
    \* batch-driving loop (while-let.rs 566-610)
    data_items,      \* the Vec<String> the iterator was built from
    items_iter,      \* data_items.into_iter(): the elements not yet yielded
    max_batch_size,  \* the capacity in bytes
    batch_number,
    batch,           \* the DataBatch in progress: [items, size_bytes]
    printed,         \* the batches printed by "Items in batch", in order
    step,            \* what the last loop step did, and with which item
    bpc,             \* position in the loop: "outer", "inner", "done", "idle"
    \* run-length scan (while-let.rs 667-684)
    numbers,         \* the Vec<i32> scanned
    iter,            \* numbers.iter().peekable(): [iter, peeked]
    num,             \* the element bound by the outer while let
    count,
    runs,            \* the (num, count) pairs printed at line 683, in order
    spc,             \* position in the scan: "outer", "peek", "done", "idle"
    \* a peekable iterator under arbitrary peek/next calls (668, 670, 674, 677)
    pk_data,         \* the backing sequence
    pk,              \* pk_data.iter().peekable(): [iter, peeked]
    pk_plain,        \* pk_data.iter(), never peeked, advanced by the same nexts
    pk_log,          \* the calls made so far: <<"peek" or "next", returned Option>>
    \* the cursor streams (180-199, 258-277, 358-377)
    source,          \* DataSource: [data, index]
    queue,           \* TaskQueue: [tasks, index]
    stream,          \* TokenStream: [tokens, index]
    fetched,         \* per stream, the Options its calls returned, in order
    \* the parse -> validate -> format chain (option-combinator.rs 255-303)
    pl_input,        \* the &str given to the chain, as a sequence of characters
    pl_chain,        \* Some(input) and then the Option each combinator returned
    pl_formatted,    \* the Persons format_person was called with, in order
    pl_result,       \* the String the chain ends in
    pl_pc,           \* "parse", "validate", "format", "collapse", "done", "idle"
    \* pick_choice and print_msg (result-type.rs 81-85, 106-110)
    rt_fn,           \* the function called: "pick_choice" or "print_msg"
    rt_args,         \* its arguments: <<input>> or <<age, name>>
    rt_stage,        \* the Result of get_choice / Adult::new, <<>> before the call
    rt_out,          \* the lines the function printed, in order
    rt_ret,          \* the Result the function returned, <<>> before it returns
    rt_pc,           \* "call", "try", "print", "return", "done", "idle"
    \* single combinator calls (option-combinator.rs 56-64, 199-232;
    \* map-combinator.rs 36-71)
    co_op,           \* the call made: "map_double", "map_user", "map_identity",
                     \* "zip", "unwrap_or_else"
    co_arg,          \* what the receiver is computed from (find_user's name)
    co_in,           \* the receiver Option, and for zip the other Option
    co_out,          \* <<value returned>>, <<>> before the call
    co_calls,        \* the closure calls made, <<closure, argument>> each
    co_pc,           \* "find", "call", "done", "idle"
    \* the mutable slot (option-combinator.rs 239-248)
    maybe_value,     \* the Option held by the slot
    sl_log,          \* the calls made on it: [op, arg, ret] each
    \* the command processor (while-let.rs 423-453)
    commands,        \* the Vec the loop pops from
    cmd_input,       \* the Vec as it was built
    cmd_taken,       \* the values bound to `command`, in order
    cmd_printed,     \* the lines printed by the match arms
    cmd_pc,          \* "loop", "done", "idle"
    \* the event-processing loop (while-let.rs 477-539)
    events,          \* the Vec the loop pops from
    ev_input,        \* the Vec as it was built
    ev_taken,        \* the values bound to `event`, in order
    ev_printed,      \* the lines printed
    error_count,
    ev_pc,           \* "loop", "done", "idle"
    \* the process-until-negative loop (while-let.rs 314-325)
    data,            \* the Vec the loop pops from
    neg_input,       \* the Vec as it was built
    neg_processed,   \* the numbers printed as "Processing: "
    neg_found,       \* the number printed as "Found negative number: "
    neg_pc,          \* "loop", "done", "idle"
    \* the conditional-processing loop (while-let.rs 97-113)
    cond_numbers,    \* the Vec as it was built
    cond_iter,       \* numbers.into_iter(): the elements not yet yielded
    cond_printed,    \* the lines printed: <<"Got", n>>, <<"Found 5!">>,
                     \* <<"Special processing", n>>
    cond_pc          \* "loop", "done", "idle"

batchVars == <<data_items, items_iter, max_batch_size, batch_number, batch,
               printed, step, bpc>>

scanVars == <<numbers, iter, num, count, runs, spc>>

peekVars == <<pk_data, pk, pk_plain, pk_log>>

cursorVars == <<source, queue, stream, fetched>>

pipeVars == <<pl_input, pl_chain, pl_formatted, pl_result, pl_pc>>

tryVars == <<rt_fn, rt_args, rt_stage, rt_out, rt_ret, rt_pc>>

combVars == <<co_op, co_arg, co_in, co_out, co_calls, co_pc>>

slotVars == <<maybe_value, sl_log>>

cmdVars == <<commands, cmd_input, cmd_taken, cmd_printed, cmd_pc>>

evVars == <<events, ev_input, ev_taken, ev_printed, error_count, ev_pc>>

negVars == <<data, neg_input, neg_processed, neg_found, neg_pc>>

condVars == <<cond_numbers, cond_iter, cond_printed, cond_pc>>

vars == <<batchVars, scanVars, peekVars, cursorVars,
          pipeVars, tryVars, combVars, slotVars,
          cmdVars, evVars, negVars, condVars>>

(* What each component leaves alone: the variables of all the others.       *)
notBatch == <<scanVars, peekVars, cursorVars, pipeVars,
              tryVars, combVars, slotVars, cmdVars,
              evVars, negVars, condVars>>

notScan == <<batchVars, peekVars, cursorVars, pipeVars,
             tryVars, combVars, slotVars, cmdVars,
             evVars, negVars, condVars>>

notPeek == <<batchVars, scanVars, cursorVars, pipeVars,
             tryVars, combVars, slotVars, cmdVars,
             evVars, negVars, condVars>>

notCursor == <<batchVars, scanVars, peekVars, pipeVars,
               tryVars, combVars, slotVars, cmdVars,
               evVars, negVars, condVars>>

notPipe == <<batchVars, scanVars, peekVars, cursorVars,
             tryVars, combVars, slotVars, cmdVars,
             evVars, negVars, condVars>>

notTry == <<batchVars, scanVars, peekVars, cursorVars,
            pipeVars, combVars, slotVars, cmdVars,
            evVars, negVars, condVars>>

notComb == <<batchVars, scanVars, peekVars, cursorVars,
             pipeVars, tryVars, slotVars, cmdVars,
             evVars, negVars, condVars>>

notSlot == <<batchVars, scanVars, peekVars, cursorVars,
             pipeVars, tryVars, combVars, cmdVars,
             evVars, negVars, condVars>>

notCmd == <<batchVars, scanVars, peekVars, cursorVars,
            pipeVars, tryVars, combVars, slotVars,
            evVars, negVars, condVars>>

notEv == <<batchVars, scanVars, peekVars, cursorVars,
           pipeVars, tryVars, combVars, slotVars,
           cmdVars, negVars, condVars>>

notNeg == <<batchVars, scanVars, peekVars, cursorVars,
            pipeVars, tryVars, combVars, slotVars,
            cmdVars, evVars, condVars>>

notCond == <<batchVars, scanVars, peekVars, cursorVars,
             pipeVars, tryVars, combVars, slotVars,
             cmdVars, evVars, negVars>>

----------------------------------------------------------------------------
(* Option<T>: None is the empty sequence, Some(v) the one-element sequence. *)

None == <<>>

Some(v) == <<v>>

----------------------------------------------------------------------------
(* Bounds of the model and the program's own constants.                     *)

MaxItems == 4

MaxCap == 4

MaxNums == 4

MaxCalls == 6

MaxRecords == 2

MaxFetches == 4

MaxFields == 4

MaxInt == 8

MaxSlotOps == 4

MaxCommands == 4

MaxEvents == 4

MaxData == 4

MaxCond == 5

SourceCap == 30

ItemPool == {"a", "bb", "ccc"}

SourceItems == <<"item1", "item2_longer", "item3", "item4_very_long_string",
                 "item5", "item6_medium", "item7">>

NumPool == {1, 2, 3}

SourceNumbers == <<1, 2, 2, 3, 3, 3, 4, 4, 4, 4>>

SpecNumbers == <<1, 1, 2, 3, 3, 3, 4>>

RecordPool == {"Record 1", "Record 2"}

TaskPool == {<<"Ok", "Task 1: Success">>, <<"Err", "Task 5: Failed - Timeout">>}

TokenPool == {<<"Number", 5>>, <<"Plus">>}

SeqsUpTo(S, n) == UNION {[1..k -> S] : k \in 0..n}

Last(s) == s[Len(s)]

----------------------------------------------------------------------------
(* DataBatch (while-let.rs 543-564).                                        *)

DataBatchNew == [items |-> <<>>, size_bytes |-> 0]

(* An add that counts items instead of bytes.                               *)
DataBatchAddCountsItems(b, item) ==
    [items |-> Append(b.items, item), size_bytes |-> b.size_bytes + 1]

DataBatchAdd(b, item) ==
    [items |-> Append(b.items, item), size_bytes |-> b.size_bytes + Len(item)]

(* A fullness test that is strict.                                          *)
is_full_strict(b, max_size) == b.size_bytes > max_size

is_full(b, max_size) == b.size_bytes >= max_size

(* std::vec::IntoIter::next on the remaining elements.                      *)
IterNext(it) ==
    IF it = <<>> THEN [ret |-> None, it |-> it]
    ELSE [ret |-> Some(Head(it)), it |-> Tail(it)]

----------------------------------------------------------------------------
(* Peekable<I> of the standard library, as the scan uses it: `peeked` is   *)
(* the Option<Option<Item>> slot, kept here as a sequence of Option values. *)

PeekableNew(s) == [iter |-> s, peeked |-> <<>>]

(* A next that goes straight to the inner iterator and drops the buffer.    *)
PeekableNextSkipsBuffer(p) ==
    LET r == IterNext(p.iter)
    IN [ret |-> r.ret, it |-> [iter |-> r.it, peeked |-> <<>>]]

(* iter.next(): the buffered value if there is one, else the inner next.    *)
PeekableNext(p) ==
    IF p.peeked # <<>>
    THEN [ret |-> Head(p.peeked), it |-> [p EXCEPT !.peeked = Tail(p.peeked)]]
    ELSE LET r == IterNext(p.iter)
         IN [ret |-> r.ret, it |-> [p EXCEPT !.iter = r.it]]

(* A peek that pulls from the inner iterator on every call.                 *)
PeekablePeekAlwaysPulls(p) ==
    LET r == IterNext(p.iter)
    IN [ret |-> r.ret, it |-> [iter |-> r.it, peeked |-> Append(p.peeked, r.ret)]]

(* iter.peek(): fills the slot from the inner iterator when it is empty.    *)
PeekablePeek(p) ==
    IF p.peeked = <<>>
    THEN LET r == IterNext(p.iter)
         IN [ret |-> r.ret, it |-> [iter |-> r.it, peeked |-> <<r.ret>>]]
    ELSE [ret |-> Head(p.peeked), it |-> p]

----------------------------------------------------------------------------
(* Idle values: a component that a specification does not run.              *)

BatchIdle ==
    /\ data_items = <<>>
    /\ items_iter = <<>>
    /\ max_batch_size = SourceCap
    /\ batch_number = 0
    /\ batch = DataBatchNew
    /\ printed = <<>>
    /\ step = [kind |-> "init"]
    /\ bpc = "idle"

ScanIdle ==
    /\ numbers = <<>>
    /\ iter = PeekableNew(<<>>)
    /\ num = 0
    /\ count = 0
    /\ runs = <<>>
    /\ spc = "idle"

PeekIdle ==
    /\ pk_data = <<>>
    /\ pk = PeekableNew(<<>>)
    /\ pk_plain = <<>>
    /\ pk_log = <<>>

CursorIdle ==
    /\ source = [data |-> <<>>, index |-> 0]
    /\ queue = [tasks |-> <<>>, index |-> 0]
    /\ stream = [tokens |-> <<>>, index |-> 0]
    /\ fetched = [source |-> <<>>, queue |-> <<>>, stream |-> <<>>]

PipeIdle ==
    /\ pl_input = <<>>
    /\ pl_chain = <<>>
    /\ pl_formatted = <<>>
    /\ pl_result = <<>>
    /\ pl_pc = "idle"

TryIdle ==
    /\ rt_fn = "none"
    /\ rt_args = <<>>
    /\ rt_stage = <<>>
    /\ rt_out = <<>>
    /\ rt_ret = <<>>
    /\ rt_pc = "idle"

CombIdle ==
    /\ co_op = "none"
    /\ co_arg = <<>>
    /\ co_in = <<>>
    /\ co_out = <<>>
    /\ co_calls = <<>>
    /\ co_pc = "idle"

SlotIdle ==
    /\ maybe_value = None
    /\ sl_log = <<>>

CmdIdle ==
    /\ commands = <<>>
    /\ cmd_input = <<>>
    /\ cmd_taken = <<>>
    /\ cmd_printed = <<>>
    /\ cmd_pc = "idle"

EvIdle ==
    /\ events = <<>>
    /\ ev_input = <<>>
    /\ ev_taken = <<>>
    /\ ev_printed = <<>>
    /\ error_count = 0
    /\ ev_pc = "idle"

NegIdle ==
    /\ data = <<>>
    /\ neg_input = <<>>
    /\ neg_processed = <<>>
    /\ neg_found = None
    /\ neg_pc = "idle"

CondIdle ==
    /\ cond_numbers = <<>>
    /\ cond_iter = <<>>
    /\ cond_printed = <<>>
    /\ cond_pc = "idle"

----------------------------------------------------------------------------
(* The batch-driving loop.                                                  *)

BatchInit ==
    /\ \/ /\ data_items \in SeqsUpTo(ItemPool, MaxItems)
          /\ max_batch_size \in 0..MaxCap
       \/ /\ data_items = SourceItems
          /\ max_batch_size \in {0, SourceCap}
    /\ items_iter = data_items
    /\ batch_number = 0
    /\ batch = DataBatchNew
    /\ printed = <<>>
    /\ step = [kind |-> "init"]
    /\ bpc = "outer"
    /\ ScanIdle
    /\ PeekIdle
    /\ CursorIdle
    /\ PipeIdle
    /\ TryIdle
    /\ CombIdle
    /\ SlotIdle
    /\ CmdIdle
    /\ EvIdle
    /\ NegIdle
    /\ CondIdle

(* line 582, pattern fails: the input is empty, the loop body never runs.   *)
BatchNoItems ==
    /\ bpc = "outer"
    /\ IterNext(items_iter).ret = None
    /\ bpc' = "done"
    /\ step' = [kind |-> "empty"]
    /\ UNCHANGED <<data_items, items_iter, max_batch_size, batch_number, batch,
                   printed>>
    /\ UNCHANGED notBatch

(* lines 582-587: the first item goes into batch 1 unconditionally.         *)
BatchStart ==
    /\ bpc = "outer"
    /\ IterNext(items_iter).ret # None
    /\ LET r == IterNext(items_iter)
           first_item == r.ret[1]
       IN /\ items_iter' = r.it
          /\ batch_number' = batch_number + 1
          /\ batch' = DataBatchAdd(DataBatchNew, first_item)
          /\ step' = [kind |-> "first", item |-> first_item]
    /\ bpc' = "inner"
    /\ UNCHANGED <<data_items, max_batch_size, printed>>
    /\ UNCHANGED notBatch

(* A rollover that forgets to put the pulled item into the new batch.       *)
BatchRollOverDropsItem ==
    /\ bpc = "inner"
    /\ IterNext(items_iter).ret # None
    /\ is_full(batch, max_batch_size)
    /\ items_iter' = IterNext(items_iter).it
    /\ printed' = Append(printed, batch)
    /\ batch_number' = batch_number + 1
    /\ batch' = DataBatchNew
    /\ step' = [kind |-> "rollover", item |-> IterNext(items_iter).ret[1]]
    /\ UNCHANGED <<data_items, max_batch_size, bpc>>
    /\ UNCHANGED notBatch

(* lines 590-601: the batch is full, print it and start a new one with the  *)
(* item just pulled.                                                        *)
BatchRollOver ==
    /\ bpc = "inner"
    /\ IterNext(items_iter).ret # None
    /\ is_full(batch, max_batch_size)
    /\ LET r == IterNext(items_iter)
           item == r.ret[1]
       IN /\ items_iter' = r.it
          /\ printed' = Append(printed, batch)
          /\ batch_number' = batch_number + 1
          /\ batch' = DataBatchAdd(DataBatchNew, item)
          /\ step' = [kind |-> "rollover", item |-> item]
    /\ UNCHANGED <<data_items, max_batch_size, bpc>>
    /\ UNCHANGED notBatch

(* An append that does not look at the fullness of the batch.               *)
BatchAppendIgnoresFull ==
    /\ bpc = "inner"
    /\ IterNext(items_iter).ret # None
    /\ LET r == IterNext(items_iter)
           item == r.ret[1]
       IN /\ items_iter' = r.it
          /\ batch' = DataBatchAdd(batch, item)
          /\ step' = [kind |-> "append", item |-> item]
    /\ UNCHANGED <<data_items, max_batch_size, batch_number, printed, bpc>>
    /\ UNCHANGED notBatch

(* lines 590-591, 602-604: the batch is not full, the item joins it.        *)
BatchAppend ==
    /\ bpc = "inner"
    /\ IterNext(items_iter).ret # None
    /\ ~is_full(batch, max_batch_size)
    /\ LET r == IterNext(items_iter)
           item == r.ret[1]
       IN /\ items_iter' = r.it
          /\ batch' = DataBatchAdd(batch, item)
          /\ step' = [kind |-> "append", item |-> item]
    /\ UNCHANGED <<data_items, max_batch_size, batch_number, printed, bpc>>
    /\ UNCHANGED notBatch

(* An end of input that prints the batch in progress only when it is full. *)
BatchFinishOnlyIfFull ==
    /\ bpc = "inner"
    /\ IterNext(items_iter).ret = None
    /\ printed' = IF is_full(batch, max_batch_size)
                  THEN Append(printed, batch) ELSE printed
    /\ step' = [kind |-> "final"]
    /\ bpc' = "done"
    /\ UNCHANGED <<data_items, items_iter, max_batch_size, batch_number, batch>>
    /\ UNCHANGED notBatch

(* lines 590, 607-609: the iterator is exhausted, print the batch in        *)
(* progress and leave the outer loop.                                       *)
BatchFinish ==
    /\ bpc = "inner"
    /\ IterNext(items_iter).ret = None
    /\ printed' = Append(printed, batch)
    /\ step' = [kind |-> "final"]
    /\ bpc' = "done"
    /\ UNCHANGED <<data_items, items_iter, max_batch_size, batch_number, batch>>
    /\ UNCHANGED notBatch

BatchNext ==
    \/ BatchNoItems
    \/ BatchStart
    \/ BatchRollOver
    \/ BatchAppend
    \/ BatchFinish

Spec == BatchInit /\ [][BatchNext]_vars

----------------------------------------------------------------------------
(* The run-length scan (while-let.rs 667-684).                              *)

ScanInit ==
    /\ numbers \in SeqsUpTo(NumPool, MaxNums) \cup {SourceNumbers, SpecNumbers}
    /\ iter = PeekableNew(numbers)
    /\ num = 0
    /\ count = 0
    /\ runs = <<>>
    /\ spc = "outer"
    /\ BatchIdle
    /\ PeekIdle
    /\ CursorIdle
    /\ PipeIdle
    /\ TryIdle
    /\ CombIdle
    /\ SlotIdle
    /\ CmdIdle
    /\ EvIdle
    /\ NegIdle
    /\ CondIdle

(* A scan that never recognises an equal neighbour.                         *)
SameNumberNever(next_num, n) == FALSE

(* line 675: next_num == num                                                *)
SameNumber(next_num, n) == next_num = n

(* An exhausted iterator that does not end the scan.                        *)
ScanExhaustedKeepsLooping ==
    /\ spc = "outer"
    /\ PeekableNext(iter).ret = None
    /\ iter' = PeekableNext(iter).it
    /\ spc' = "outer"
    /\ UNCHANGED <<numbers, num, count, runs>>
    /\ UNCHANGED notScan

(* line 670, pattern fails: the iterator is exhausted, the scan ends.       *)
ScanExhausted ==
    /\ spc = "outer"
    /\ PeekableNext(iter).ret = None
    /\ iter' = PeekableNext(iter).it
    /\ spc' = "done"
    /\ UNCHANGED <<numbers, num, count, runs>>
    /\ UNCHANGED notScan

(* A scan that starts every run's count at 0.                               *)
ScanTakeCountsFromZero ==
    /\ spc = "outer"
    /\ PeekableNext(iter).ret # None
    /\ num' = PeekableNext(iter).ret[1]
    /\ iter' = PeekableNext(iter).it
    /\ count' = 0
    /\ spc' = "peek"
    /\ UNCHANGED <<numbers, runs>>
    /\ UNCHANGED notScan

(* lines 670-671: the next element opens a run.                             *)
ScanTake ==
    /\ spc = "outer"
    /\ PeekableNext(iter).ret # None
    /\ num' = PeekableNext(iter).ret[1]
    /\ iter' = PeekableNext(iter).it
    /\ count' = 1
    /\ spc' = "peek"
    /\ UNCHANGED <<numbers, runs>>
    /\ UNCHANGED notScan

(* lines 674-677: the peeked element equals num: count it and consume it.   *)
ScanExtend ==
    /\ spc = "peek"
    /\ LET peek == PeekablePeek(iter)
       IN /\ peek.ret # None
          /\ SameNumber(peek.ret[1], num)
          /\ count' = count + 1
          /\ iter' = PeekableNext(peek.it).it
    /\ UNCHANGED <<numbers, num, runs, spc>>
    /\ UNCHANGED notScan

(* lines 674, 678-683: the peeked element differs, or there is none: the    *)
(* inner loop ends, the run is printed and the outer loop resumes.          *)
ScanEmit ==
    /\ spc = "peek"
    /\ LET peek == PeekablePeek(iter)
       IN /\ \/ peek.ret = None
             \/ peek.ret # None /\ ~SameNumber(peek.ret[1], num)
          /\ iter' = peek.it
    /\ runs' = Append(runs, <<num, count>>)
    /\ spc' = "outer"
    /\ UNCHANGED <<numbers, num, count>>
    /\ UNCHANGED notScan

ScanNext ==
    \/ ScanExhausted
    \/ ScanTake
    \/ ScanExtend
    \/ ScanEmit

ScanSpec == ScanInit /\ [][ScanNext]_vars

----------------------------------------------------------------------------
(* A peekable iterator driven by any sequence of peek and next calls.       *)

PeekInit ==
    /\ pk_data \in SeqsUpTo(NumPool, MaxNums)
    /\ pk = PeekableNew(pk_data)
    /\ pk_plain = pk_data
    /\ pk_log = <<>>
    /\ BatchIdle
    /\ ScanIdle
    /\ CursorIdle
    /\ PipeIdle
    /\ TryIdle
    /\ CombIdle
    /\ SlotIdle
    /\ CmdIdle
    /\ EvIdle
    /\ NegIdle
    /\ CondIdle

(* iter.peek(), line 674.                                                   *)
PeekCall ==
    /\ Len(pk_log) < MaxCalls
    /\ pk' = PeekablePeek(pk).it
    /\ pk_log' = Append(pk_log, <<"peek", PeekablePeek(pk).ret>>)
    /\ UNCHANGED <<pk_data, pk_plain>>
    /\ UNCHANGED notPeek

(* iter.next(), lines 670 and 677.                                          *)
NextCall ==
    /\ Len(pk_log) < MaxCalls
    /\ pk' = PeekableNext(pk).it
    /\ pk_log' = Append(pk_log, <<"next", PeekableNext(pk).ret>>)
    /\ pk_plain' = IterNext(pk_plain).it
    /\ UNCHANGED pk_data
    /\ UNCHANGED notPeek

PeekNext ==
    \/ PeekCall
    \/ NextCall

PeekSpec == PeekInit /\ [][PeekNext]_vars

----------------------------------------------------------------------------
(* The cursor streams, each driven by any number of calls.                  *)

(* A fetch_next that hands out the item under the cursor and stays there.   *)
fetch_next_stays(s) ==
    IF s.index < Len(s.data)
    THEN [ret |-> Some(s.data[s.index + 1]), self |-> s]
    ELSE [ret |-> None, self |-> s]

(* A fetch_next that rewinds the cursor at the end of the data.             *)
fetch_next_rewinds(s) ==
    IF s.index < Len(s.data)
    THEN [ret |-> Some(s.data[s.index + 1]), self |-> [s EXCEPT !.index = @ + 1]]
    ELSE [ret |-> None, self |-> [s EXCEPT !.index = 0]]

(* DataSource::fetch_next, lines 190-198 (data[index] is 0-based there).    *)
fetch_next(s) ==
    IF s.index < Len(s.data)
    THEN [ret |-> Some(s.data[s.index + 1]), self |-> [s EXCEPT !.index = @ + 1]]
    ELSE [ret |-> None, self |-> s]

(* TaskQueue::get_next, lines 268-276.                                      *)
get_next(q) ==
    IF q.index < Len(q.tasks)
    THEN [ret |-> Some(q.tasks[q.index + 1]), self |-> [q EXCEPT !.index = @ + 1]]
    ELSE [ret |-> None, self |-> q]

(* TokenStream::next_token, lines 368-376.                                  *)
next_token(t) ==
    IF t.index < Len(t.tokens)
    THEN [ret |-> Some(t.tokens[t.index + 1]), self |-> [t EXCEPT !.index = @ + 1]]
    ELSE [ret |-> None, self |-> t]

CursorInit ==
    /\ \E d \in SeqsUpTo(RecordPool, MaxRecords) :
          source = [data |-> d, index |-> 0]
    /\ \E d \in SeqsUpTo(TaskPool, MaxRecords) :
          queue = [tasks |-> d, index |-> 0]
    /\ \E d \in SeqsUpTo(TokenPool, MaxRecords) :
          stream = [tokens |-> d, index |-> 0]
    /\ fetched = [source |-> <<>>, queue |-> <<>>, stream |-> <<>>]
    /\ BatchIdle
    /\ ScanIdle
    /\ PeekIdle
    /\ PipeIdle
    /\ TryIdle
    /\ CombIdle
    /\ SlotIdle
    /\ CmdIdle
    /\ EvIdle
    /\ NegIdle
    /\ CondIdle

FetchNext ==
    /\ Len(fetched.source) < MaxFetches
    /\ source' = fetch_next(source).self
    /\ fetched' = [fetched EXCEPT !.source = Append(@, fetch_next(source).ret)]
    /\ UNCHANGED <<queue, stream>>
    /\ UNCHANGED notCursor

GetNext ==
    /\ Len(fetched.queue) < MaxFetches
    /\ queue' = get_next(queue).self
    /\ fetched' = [fetched EXCEPT !.queue = Append(@, get_next(queue).ret)]
    /\ UNCHANGED <<source, stream>>
    /\ UNCHANGED notCursor

NextToken ==
    /\ Len(fetched.stream) < MaxFetches
    /\ stream' = next_token(stream).self
    /\ fetched' = [fetched EXCEPT !.stream = Append(@, next_token(stream).ret)]
    /\ UNCHANGED <<source, queue>>
    /\ UNCHANGED notCursor

CursorNext ==
    \/ FetchNext
    \/ GetNext
    \/ NextToken

CursorSpec == CursorInit /\ [][CursorNext]_vars

----------------------------------------------------------------------------
(* Strings as sequences of one-character strings, and the str and fmt      *)
(* routines the chain uses, each computed as the library computes it.      *)

Digits == <<"0", "1", "2", "3", "4", "5", "6", "7", "8", "9">>

IsDigit(c) == \E i \in 1..Len(Digits) : Digits[i] = c

DigitValue(c) == (CHOOSE i \in 1..Len(Digits) : Digits[i] = c) - 1

IsWhitespace(c) == c = " "

(* u32::MAX is 4294967295: its digits before the last, and its last digit.  *)
U32MaxDiv10 == 429496729

U32MaxLastDigit == 5

RECURSIVE SplitFrom(_, _, _)
(* The parts of s after position i, cur being the part under construction. *)
SplitFrom(s, i, cur) ==
    IF i > Len(s) THEN <<cur>>
    ELSE IF s[i] = "," THEN <<cur>> \o SplitFrom(s, i + 1, <<>>)
    ELSE SplitFrom(s, i + 1, Append(cur, s[i]))

(* input.split(',').collect(): n commas give n + 1 parts, empty ones kept.  *)
Split(s) == SplitFrom(s, 1, <<>>)

RECURSIVE TrimStart(_)
TrimStart(s) ==
    IF s # <<>> /\ IsWhitespace(Head(s)) THEN TrimStart(Tail(s)) ELSE s

RECURSIVE TrimEnd(_)
TrimEnd(s) ==
    IF s # <<>> /\ IsWhitespace(s[Len(s)])
    THEN TrimEnd(SubSeq(s, 1, Len(s) - 1)) ELSE s

(* str::trim                                                                *)
Trim(s) == TrimEnd(TrimStart(s))

RECURSIVE ParseDigits(_, _)
(* The digits of s appended to acc; None on a non-digit or when           *)
(* acc * 10 + digit would exceed u32::MAX (tested without computing it).   *)
ParseDigits(s, acc) ==
    IF s = <<>> THEN Some(acc)
    ELSE IF ~IsDigit(Head(s)) THEN None
    ELSE IF acc > U32MaxDiv10 THEN None
    ELSE IF acc = U32MaxDiv10 /\ DigitValue(Head(s)) > U32MaxLastDigit THEN None
    ELSE ParseDigits(Tail(s), acc * 10 + DigitValue(Head(s)))

(* str::parse::<u32>().ok(): an optional '+', then at least one digit.      *)
ParseU32(s) ==
    IF s = <<>> THEN None
    ELSE IF Head(s) = "+"
         THEN IF Tail(s) = <<>> THEN None ELSE ParseDigits(Tail(s), 0)
    ELSE ParseDigits(s, 0)

RECURSIVE FormatU32(_)
(* Display of a u32: its decimal digits, no sign, no leading zero.          *)
FormatU32(n) ==
    IF n < 10 THEN <<Digits[n + 1]>>
    ELSE FormatU32(n \div 10) \o <<Digits[(n % 10) + 1]>>

----------------------------------------------------------------------------
(* parse_user_input, validate_person, format_person (255-285).              *)

InvalidPerson == <<"I", "n", "v", "a", "l", "i", "d", " ", "p", "e", "r", "s", "o", "n">>

MinAge == 13

parse_user_input(input) ==
    LET parts == Split(input)
    IN IF Len(parts) # 3 THEN None
       ELSE LET name == Trim(parts[1])
                age == ParseU32(Trim(parts[2]))
                email == IF Trim(parts[3]) = <<>> THEN None
                         ELSE Some(Trim(parts[3]))
            IN IF age = None THEN None
               ELSE Some([name |-> name, age |-> age[1], email |-> email])

validate_person(person) ==
    IF person.age >= MinAge /\ person.name # <<>> THEN Some(person) ELSE None

(* A format_person that leaves the email out.                               *)
format_person_without_email(person) ==
    person.name \o <<" ", "(">> \o FormatU32(person.age) \o <<")">>

format_person(person) ==
    IF person.email # None
    THEN person.name \o <<" ", "(">> \o FormatU32(person.age) \o <<")">>
         \o <<" ", "-", " ">> \o person.email[1]
    ELSE person.name \o <<" ", "(">> \o FormatU32(person.age) \o <<")">>

----------------------------------------------------------------------------
(* A closure is passed as <<name, captured values...>>; Call runs its body. *)

Call(f, x) ==
    CASE f[1] = "parse_user_input" -> parse_user_input(x)
      [] f[1] = "validate_person" -> validate_person(x)
      [] f[1] = "format_person" -> format_person(x)
      [] f[1] = "double" -> x * 2
      [] f[1] = "identity" -> x
      [] f[1] = "make_user" -> [user_id |-> x, name |-> f[2]]
      [] f[1] = "expensive_default" -> "Computed Default"
      [] f[1] = "fetch_from_database" -> f[2]
      [] f[1] = "fetch_from_api" -> f[2]

(* Option combinators of the standard library, as the source calls them.   *)
(* Each gives the value returned and the closure calls it made, in order.  *)

(* Option::and_then                                                         *)
AndThen(o, f) ==
    IF o = None THEN [ret |-> None, calls |-> <<>>]
    ELSE [ret |-> Call(f, o[1]), calls |-> <<<<f, o[1]>>>>]

(* A map that yields None without running the closure.                      *)
OptionMapToNone(o, f) == [ret |-> None, calls |-> <<>>]

(* A map that runs the closure a second time on its own result.             *)
OptionMapTwice(o, f) ==
    IF o = None THEN [ret |-> None, calls |-> <<>>]
    ELSE [ret |-> Some(Call(f, Call(f, o[1]))),
          calls |-> <<<<f, o[1]>>, <<f, Call(f, o[1])>>>>]

(* Option::map                                                              *)
OptionMap(o, f) ==
    IF o = None THEN [ret |-> None, calls |-> <<>>]
    ELSE [ret |-> Some(Call(f, o[1])), calls |-> <<<<f, o[1]>>>>]

----------------------------------------------------------------------------
(* The inputs of the chain: the source's four, the specification's, and    *)
(* every comma-joined choice of up to MaxFields fields from the pools.     *)

InputAlice == 
    <<"A", "l", "i", "c", "e", ",", " ", "3", "0", ",", " ", "a", "l",
    "i", "c", "e", "@", "e", "x", "a", "m", "p", "l", "e", ".", "c", "o",
    "m">>

InputBob == 
    <<"B", "o", "b", ",", " ", "2", "5", ",", " ">>

InputCharlie == 
    <<"C", "h", "a", "r", "l", "i", "e", ",", " ", "1", "2", ",", " ",
    "c", "h", "a", "r", "l", "i", "e", "@", "e", "x", "a", "m", "p", "l",
    "e", ".", "c", "o", "m">>

InputInvalid == 
    <<"I", "n", "v", "a", "l", "i", "d", " ", "i", "n", "p", "u", "t">>

InputCharlieShort == 
    <<"C", "h", "a", "r", "l", "i", "e", ",", " ", "1", "2", ",", " ",
    "x", "@", "e", "x", "a", "m", "p", "l", "e", ".", "c", "o", "m">>

OutputAlice == 
    <<"A", "l", "i", "c", "e", " ", "(", "3", "0", ")", " ", "-", " ",
    "a", "l", "i", "c", "e", "@", "e", "x", "a", "m", "p", "l", "e", ".",
    "c", "o", "m">>

OutputBob == 
    <<"B", "o", "b", " ", "(", "2", "5", ")">>

NamePool == {<<"A", "l">>, <<" ", "A", "l", " ">>, <<>>, <<" ">>}

AgePool == {<<"1", "2">>, <<"1", "3">>, <<" ", "1", "7">>, <<"1", "8", " ">>,
            <<" ", "3", "0", " ">>, <<"+", "3", "0">>, <<"-", "5">>, <<"x">>,
            <<>>, <<"0", "4", "0">>,
            <<"4", "2", "9", "4", "9", "6", "7", "2", "9", "6">>}

EmailPool == {<<"a", "@", "b">>, <<" ", "a", "@", "b", " ">>, <<>>, <<" ">>}

ExtraPool == {<<>>, <<"x">>}

FieldPool(i) ==
    IF i = 1 THEN NamePool
    ELSE IF i = 2 THEN AgePool
    ELSE IF i = 3 THEN EmailPool
    ELSE ExtraPool

RECURSIVE Join(_)
Join(fields) ==
    IF Len(fields) = 1 THEN fields[1]
    ELSE fields[1] \o <<",">> \o Join(Tail(fields))

FieldChoices(n) == {f \in [1..n -> NamePool \cup AgePool \cup EmailPool \cup ExtraPool] :
                       \A i \in 1..n : f[i] \in FieldPool(i)}

PipeInputs ==
    {InputAlice, InputBob, InputCharlie, InputInvalid, InputCharlieShort}
    \cup {Join(f) : f \in UNION {FieldChoices(n) : n \in 1..MaxFields}}

----------------------------------------------------------------------------
(* The chain of lines 296-300, one step per combinator call.                *)

PipeInit ==
    /\ pl_input \in PipeInputs
    /\ pl_chain = <<Some(pl_input)>>
    /\ pl_formatted = <<>>
    /\ pl_result = <<>>
    /\ pl_pc = "parse"
    /\ BatchIdle
    /\ ScanIdle
    /\ PeekIdle
    /\ CursorIdle
    /\ TryIdle
    /\ CombIdle
    /\ SlotIdle
    /\ CmdIdle
    /\ EvIdle
    /\ NegIdle
    /\ CondIdle

(* line 297: .and_then(|s| parse_user_input(s))                             *)
PipeParse ==
    /\ pl_pc = "parse"
    /\ pl_chain' = Append(pl_chain,
                          AndThen(Last(pl_chain), <<"parse_user_input">>).ret)
    /\ pl_pc' = "validate"
    /\ UNCHANGED <<pl_input, pl_formatted, pl_result>>
    /\ UNCHANGED notPipe

(* line 298: .and_then(|p| validate_person(p))                              *)
PipeValidate ==
    /\ pl_pc = "validate"
    /\ pl_chain' = Append(pl_chain,
                          AndThen(Last(pl_chain), <<"validate_person">>).ret)
    /\ pl_pc' = "format"
    /\ UNCHANGED <<pl_input, pl_formatted, pl_result>>
    /\ UNCHANGED notPipe

(* A map step that formats whatever the parse returned.                     *)
PipeFormatSkipsValidation ==
    /\ pl_pc = "format"
    /\ LET m == OptionMap(pl_chain[2], <<"format_person">>)
       IN /\ pl_chain' = Append(pl_chain, m.ret)
          /\ pl_formatted' = pl_formatted \o [i \in 1..Len(m.calls) |-> m.calls[i][2]]
    /\ pl_pc' = "collapse"
    /\ UNCHANGED <<pl_input, pl_result>>
    /\ UNCHANGED notPipe

(* line 299: .map(|p| format_person(p)); the closure runs only on Some.     *)
PipeFormat ==
    /\ pl_pc = "format"
    /\ LET m == OptionMap(Last(pl_chain), <<"format_person">>)
       IN /\ pl_chain' = Append(pl_chain, m.ret)
          /\ pl_formatted' = pl_formatted \o [i \in 1..Len(m.calls) |-> m.calls[i][2]]
    /\ pl_pc' = "collapse"
    /\ UNCHANGED <<pl_input, pl_result>>
    /\ UNCHANGED notPipe

(* A collapse that falls back to the empty string.                          *)
PipeCollapseToEmpty ==
    /\ pl_pc = "collapse"
    /\ pl_result' = IF Last(pl_chain) = None THEN <<>> ELSE Last(pl_chain)[1]
    /\ pl_pc' = "done"
    /\ UNCHANGED <<pl_input, pl_chain, pl_formatted>>
    /\ UNCHANGED notPipe

(* line 300: .unwrap_or_else(|| "Invalid person".to_string())               *)
PipeCollapse ==
    /\ pl_pc = "collapse"
    /\ pl_result' = IF Last(pl_chain) = None THEN InvalidPerson
                    ELSE Last(pl_chain)[1]
    /\ pl_pc' = "done"
    /\ UNCHANGED <<pl_input, pl_chain, pl_formatted>>
    /\ UNCHANGED notPipe

PipeNext ==
    \/ PipeParse
    \/ PipeValidate
    \/ PipeFormat
    \/ PipeCollapse

PipeSpec == PipeInit /\ [][PipeNext]_vars

----------------------------------------------------------------------------
(* Result<T, E>, and the fallible functions of result-type.rs.              *)

Ok(v) == <<"Ok", v>>

Err(e) == <<"Err", e>>

IsOk(r) == r # <<>> /\ r[1] = "Ok"

IsErr(r) == r # <<>> /\ r[1] = "Err"

Unit == <<>>

U8Max == 255

LegalAge == 21

ChoicePool == {"mainmenu", "start", "quit", "invalid_choice", "", "Start",
               "quit "}

AdultNamePool == {"Sam", "John"}

(* get_choice, lines 35-42.                                                 *)
get_choice(input) ==
    CASE input = "mainmenu" -> Ok("MainMenu")
      [] input = "start" -> Ok("Start")
      [] input = "quit" -> Ok("Quit")
      [] OTHER -> Err("Invalid choice")

(* An Adult::new that accepts the age 21.                                   *)
AdultNewFrom21(age, name) ==
    IF age >= LegalAge THEN Ok([age |-> age, name |-> name])
    ELSE Err("Sorry you're under age")

(* Adult::new, lines 94-103.                                                *)
AdultNew(age, name) ==
    IF age > LegalAge THEN Ok([age |-> age, name |-> name])
    ELSE Err("Sorry you're under age")

TryInit ==
    /\ \/ /\ rt_fn = "pick_choice"
          /\ \E input \in ChoicePool : rt_args = <<input>>
       \/ /\ rt_fn = "print_msg"
          /\ \E age \in 0..U8Max, name \in AdultNamePool : rt_args = <<age, name>>
    /\ rt_stage = <<>>
    /\ rt_out = <<>>
    /\ rt_ret = <<>>
    /\ rt_pc = "call"
    /\ BatchIdle
    /\ ScanIdle
    /\ PeekIdle
    /\ CursorIdle
    /\ PipeIdle
    /\ CombIdle
    /\ SlotIdle
    /\ CmdIdle
    /\ EvIdle
    /\ NegIdle
    /\ CondIdle

(* line 82: get_choice(input)                                               *)
PickChoiceCall ==
    /\ rt_fn = "pick_choice" /\ rt_pc = "call"
    /\ rt_stage' = get_choice(rt_args[1])
    /\ rt_pc' = "try"
    /\ UNCHANGED <<rt_fn, rt_args, rt_out, rt_ret>>
    /\ UNCHANGED notTry

(* A ? that drops the error and reports success.                            *)
PickChoiceErrSwallowed ==
    /\ rt_fn = "pick_choice" /\ rt_pc = "try"
    /\ IsErr(rt_stage)
    /\ rt_ret' = Ok(Unit)
    /\ rt_pc' = "done"
    /\ UNCHANGED <<rt_fn, rt_args, rt_stage, rt_out>>
    /\ UNCHANGED notTry

(* line 82: ? on Err returns the error from pick_choice at once.            *)
PickChoiceErr ==
    /\ rt_fn = "pick_choice" /\ rt_pc = "try"
    /\ IsErr(rt_stage)
    /\ rt_ret' = Err(rt_stage[2])
    /\ rt_pc' = "done"
    /\ UNCHANGED <<rt_fn, rt_args, rt_stage, rt_out>>
    /\ UNCHANGED notTry

(* lines 82-83: ? on Ok yields the choice, which is printed.                *)
PickChoicePrint ==
    /\ rt_fn = "pick_choice" /\ rt_pc = "try"
    /\ IsOk(rt_stage)
    /\ rt_out' = Append(rt_out, <<"User choice is {:?}", rt_stage[2]>>)
    /\ rt_pc' = "return"
    /\ UNCHANGED <<rt_fn, rt_args, rt_stage, rt_ret>>
    /\ UNCHANGED notTry

(* line 84: Ok(())                                                          *)
PickChoiceOk ==
    /\ rt_fn = "pick_choice" /\ rt_pc = "return"
    /\ rt_ret' = Ok(Unit)
    /\ rt_pc' = "done"
    /\ UNCHANGED <<rt_fn, rt_args, rt_stage, rt_out>>
    /\ UNCHANGED notTry

(* line 107: Adult::new(age, name)                                          *)
PrintMsgCall ==
    /\ rt_fn = "print_msg" /\ rt_pc = "call"
    /\ rt_stage' = AdultNew(rt_args[1], rt_args[2])
    /\ rt_pc' = "try"
    /\ UNCHANGED <<rt_fn, rt_args, rt_out, rt_ret>>
    /\ UNCHANGED notTry

(* line 107: ? on Err returns the error, the &str converted to a String of *)
(* the same text.                                                          *)
PrintMsgErr ==
    /\ rt_fn = "print_msg" /\ rt_pc = "try"
    /\ IsErr(rt_stage)
    /\ rt_ret' = Err(rt_stage[2])
    /\ rt_pc' = "done"
    /\ UNCHANGED <<rt_fn, rt_args, rt_stage, rt_out>>
    /\ UNCHANGED notTry

(* lines 107-108: ? on Ok yields the Adult, whose name is printed.          *)
PrintMsgPrint ==
    /\ rt_fn = "print_msg" /\ rt_pc = "try"
    /\ IsOk(rt_stage)
    /\ rt_out' = Append(rt_out, <<"Child is {:?}", rt_stage[2].name>>)
    /\ rt_pc' = "return"
    /\ UNCHANGED <<rt_fn, rt_args, rt_stage, rt_ret>>
    /\ UNCHANGED notTry

(* line 109: Ok(())                                                         *)
PrintMsgOk ==
    /\ rt_fn = "print_msg" /\ rt_pc = "return"
    /\ rt_ret' = Ok(Unit)
    /\ rt_pc' = "done"
    /\ UNCHANGED <<rt_fn, rt_args, rt_stage, rt_out>>
    /\ UNCHANGED notTry

TryNext ==
    \/ PickChoiceCall
    \/ PickChoiceErr
    \/ PickChoicePrint
    \/ PickChoiceOk
    \/ PrintMsgCall
    \/ PrintMsgErr
    \/ PrintMsgPrint
    \/ PrintMsgOk

TrySpec == TryInit /\ [][TryNext]_vars

----------------------------------------------------------------------------
(* Single calls of map, zip and unwrap_or_else on bounded inputs.           *)

UpperCase == <<"A", "B", "C", "D", "E", "F", "G", "H", "I", "J", "K", "L", "M",
               "N", "O", "P", "Q", "R", "S", "T", "U", "V", "W", "X", "Y", "Z">>

LowerCase == <<"a", "b", "c", "d", "e", "f", "g", "h", "i", "j", "k", "l", "m",
               "n", "o", "p", "q", "r", "s", "t", "u", "v", "w", "x", "y", "z">>

ToLowerChar(c) ==
    IF \E i \in 1..Len(UpperCase) : UpperCase[i] = c
    THEN LowerCase[CHOOSE i \in 1..Len(UpperCase) : UpperCase[i] = c]
    ELSE c

(* String::to_lowercase on ASCII text.                                      *)
ToLowercase(s) == [i \in 1..Len(s) |-> ToLowerChar(s[i])]

(* find_user, map-combinator.rs 36-43.                                      *)
find_user(name) ==
    LET lower == ToLowercase(name)
    IN CASE lower = <<"j", "o", "h", "n">> -> Some(1)
         [] lower = <<"j", "a", "n", "e">> -> Some(2)
         [] OTHER -> None

(* A zip that pairs the first value with itself when the second is absent. *)
OptionZipFirstOnly(a, b) ==
    IF a = None THEN None
    ELSE IF b = None THEN Some(<<a[1], a[1]>>)
    ELSE Some(<<a[1], b[1]>>)

(* Option::zip                                                              *)
OptionZip(a, b) ==
    IF a # None /\ b # None THEN Some(<<a[1], b[1]>>) ELSE None

(* An unwrap_or_else that computes the default before looking at the value. *)
UnwrapOrElseEager(o, f) ==
    IF o = None THEN [ret |-> Call(f, Unit), calls |-> <<<<f, Unit>>>>]
    ELSE [ret |-> o[1], calls |-> <<<<f, Unit>>>>]

(* Option::unwrap_or_else                                                   *)
UnwrapOrElse(o, f) ==
    IF o = None THEN [ret |-> Call(f, Unit), calls |-> <<<<f, Unit>>>>]
    ELSE [ret |-> o[1], calls |-> <<>>]

(* An or_else that runs its closure whatever the receiver holds.            *)
OrElseEager(o, f) ==
    IF o = None THEN [ret |-> Call(f, Unit), calls |-> <<<<f, Unit>>>>]
    ELSE [ret |-> o, calls |-> <<<<f, Unit>>>>]

(* Option::or_else                                                          *)
OrElse(o, f) ==
    IF o = None THEN [ret |-> Call(f, Unit), calls |-> <<<<f, Unit>>>>]
    ELSE [ret |-> o, calls |-> <<>>]

(* The three data sources, option-combinator.rs 121-131.                    *)
get_cached_data == None

fetch_from_database == Some("Data from database")

fetch_from_api == Some("Data from API")

(* What the three sources hold: the source's simulation (a cache miss, a    *)
(* database hit, an API hit) and the variations of it.                      *)
SourceResults ==
    {get_cached_data, Some("Data from cache")}
        \X {fetch_from_database, None} \X {fetch_from_api, None}

IntPool == (-MaxInt..MaxInt) \cup {10, 20, 42}

TextPool == {"Value", "John", "Doe", "Original"}

UserNamePool == {<<"J", "o", "h", "n">>, <<"j", "o", "h", "n">>, <<"J", "A", "N", "E">>, <<"J", "a", "n", "e">>, <<"U", "n", "k", "n", "o", "w", "n">>, <<>>}

Options(S) == {None} \cup {Some(x) : x \in S}

CombInit ==
    /\ \/ /\ co_op = "map_double"
          /\ co_arg = <<>>
          /\ co_in \in {<<o>> : o \in Options(IntPool)}
          /\ co_pc = "call"
       \/ /\ co_op = "map_identity"
          /\ co_arg = <<>>
          /\ \/ co_in \in {<<o>> : o \in Options(IntPool)}
             \/ co_in \in {<<o>> : o \in Options(TextPool)}
          /\ co_pc = "call"
       \/ /\ co_op = "zip"
          /\ co_arg = <<>>
          /\ \/ co_in \in Options(IntPool) \X Options(IntPool)
             \/ co_in \in Options(TextPool) \X Options(TextPool)
          /\ co_pc = "call"
       \/ /\ co_op = "unwrap_or_else"
          /\ co_arg = <<>>
          /\ co_in \in {<<o>> : o \in Options(TextPool)}
          /\ co_pc = "call"
       \/ /\ co_op = "map_user"
          /\ co_arg \in {<<n>> : n \in UserNamePool}
          /\ co_in = <<>>
          /\ co_pc = "find"
       \/ /\ co_op = "or_else"
          /\ co_arg \in SourceResults
          /\ co_in = <<>>
          /\ co_pc = "cache"
    /\ co_out = <<>>
    /\ co_calls = <<>>
    /\ BatchIdle
    /\ ScanIdle
    /\ PeekIdle
    /\ CursorIdle
    /\ PipeIdle
    /\ TryIdle
    /\ SlotIdle
    /\ CmdIdle
    /\ EvIdle
    /\ NegIdle
    /\ CondIdle

(* option-combinator.rs 60-61: some_number.map(|x| x * 2)                   *)
MapDouble ==
    /\ co_op = "map_double" /\ co_pc = "call"
    /\ co_out' = <<OptionMap(co_in[1], <<"double">>).ret>>
    /\ co_calls' = OptionMap(co_in[1], <<"double">>).calls
    /\ co_pc' = "done"
    /\ UNCHANGED <<co_op, co_arg, co_in>>
    /\ UNCHANGED notComb

(* Option::map called with the identity closure |x| x.                      *)
MapIdentity ==
    /\ co_op = "map_identity" /\ co_pc = "call"
    /\ co_out' = <<OptionMap(co_in[1], <<"identity">>).ret>>
    /\ co_calls' = OptionMap(co_in[1], <<"identity">>).calls
    /\ co_pc' = "done"
    /\ UNCHANGED <<co_op, co_arg, co_in>>
    /\ UNCHANGED notComb

(* map-combinator.rs 50, 63: find_user(name.clone())                        *)
FindUser ==
    /\ co_op = "map_user" /\ co_pc = "find"
    /\ co_in' = <<find_user(co_arg[1])>>
    /\ co_pc' = "call"
    /\ UNCHANGED <<co_op, co_arg, co_out, co_calls>>
    /\ UNCHANGED notComb

(* map-combinator.rs 51-54, 63-66: .map(|user_id| User { user_id, name })   *)
MapUser ==
    /\ co_op = "map_user" /\ co_pc = "call"
    /\ co_out' = <<OptionMap(co_in[1], <<"make_user", co_arg[1]>>).ret>>
    /\ co_calls' = OptionMap(co_in[1], <<"make_user", co_arg[1]>>).calls
    /\ co_pc' = "done"
    /\ UNCHANGED <<co_op, co_arg, co_in>>
    /\ UNCHANGED notComb

(* option-combinator.rs 221, 225: first_name.zip(last_name)                 *)
Zip ==
    /\ co_op = "zip" /\ co_pc = "call"
    /\ co_out' = <<OptionZip(co_in[1], co_in[2])>>
    /\ co_pc' = "done"
    /\ UNCHANGED <<co_op, co_arg, co_in, co_calls>>
    /\ UNCHANGED notComb

(* option-combinator.rs 200-209: unwrap_or_else(expensive_default); every  *)
(* call of the closure prints "Computing expensive default...".            *)
UnwrapOrElseCall ==
    /\ co_op = "unwrap_or_else" /\ co_pc = "call"
    /\ co_out' = <<UnwrapOrElse(co_in[1], <<"expensive_default">>).ret>>
    /\ co_calls' = UnwrapOrElse(co_in[1], <<"expensive_default">>).calls
    /\ co_pc' = "done"
    /\ UNCHANGED <<co_op, co_arg, co_in>>
    /\ UNCHANGED notComb

(* option-combinator.rs 134: get_cached_data()                              *)
ChainCache ==
    /\ co_op = "or_else" /\ co_pc = "cache"
    /\ co_in' = <<co_arg[1]>>
    /\ co_calls' = <<<<<<"get_cached_data">>, Unit>>>>
    /\ co_pc' = "database"
    /\ UNCHANGED <<co_op, co_arg, co_out>>
    /\ UNCHANGED notComb

(* option-combinator.rs 135: .or_else(|| fetch_from_database())             *)
ChainDatabase ==
    /\ co_op = "or_else" /\ co_pc = "database"
    /\ LET r == OrElse(co_in[1], <<"fetch_from_database", co_arg[2]>>)
       IN /\ co_in' = <<r.ret>>
          /\ co_calls' = co_calls \o r.calls
    /\ co_pc' = "api"
    /\ UNCHANGED <<co_op, co_arg, co_out>>
    /\ UNCHANGED notComb

(* option-combinator.rs 136: .or_else(|| fetch_from_api()); let data = ...  *)
ChainApi ==
    /\ co_op = "or_else" /\ co_pc = "api"
    /\ LET r == OrElse(co_in[1], <<"fetch_from_api", co_arg[3]>>)
       IN /\ co_out' = <<r.ret>>
          /\ co_calls' = co_calls \o r.calls
    /\ co_pc' = "done"
    /\ UNCHANGED <<co_op, co_arg, co_in>>
    /\ UNCHANGED notComb

CombNext ==
    \/ MapDouble
    \/ MapIdentity
    \/ FindUser
    \/ MapUser
    \/ Zip
    \/ UnwrapOrElseCall
    \/ ChainCache
    \/ ChainDatabase
    \/ ChainApi

CombSpec == CombInit /\ [][CombNext]_vars

----------------------------------------------------------------------------
(* take and replace on one mutable Option, in any order.                    *)

SlotPool == {"Original", "New Value"}

(* A take that hands out the content but leaves it in place.                *)
OptionTakeKeeps(self) == [ret |-> self, self |-> self]

(* Option::take                                                             *)
OptionTake(self) == [ret |-> self, self |-> None]

(* Option::replace                                                          *)
OptionReplace(self, value) == [ret |-> self, self |-> Some(value)]

SlotInit ==
    /\ maybe_value \in Options(SlotPool)
    /\ sl_log = <<>>
    /\ BatchIdle
    /\ ScanIdle
    /\ PeekIdle
    /\ CursorIdle
    /\ PipeIdle
    /\ TryIdle
    /\ CombIdle
    /\ CmdIdle
    /\ EvIdle
    /\ NegIdle
    /\ CondIdle

(* option-combinator.rs 243: maybe_value.take()                             *)
SlotTake ==
    /\ Len(sl_log) < MaxSlotOps
    /\ maybe_value' = OptionTake(maybe_value).self
    /\ sl_log' = Append(sl_log, [op |-> "take", arg |-> None,
                                 ret |-> OptionTake(maybe_value).ret])
    /\ UNCHANGED notSlot

(* option-combinator.rs 247: maybe_value.replace(value)                     *)
SlotReplace ==
    /\ Len(sl_log) < MaxSlotOps
    /\ \E value \in SlotPool :
          /\ maybe_value' = OptionReplace(maybe_value, value).self
          /\ sl_log' = Append(sl_log, [op |-> "replace", arg |-> Some(value),
                                       ret |-> OptionReplace(maybe_value, value).ret])
    /\ UNCHANGED notSlot

SlotNext ==
    \/ SlotTake
    \/ SlotReplace

SlotSpec == SlotInit /\ [][SlotNext]_vars

----------------------------------------------------------------------------
(* The command processor.                                                   *)

(* A pop that takes the first element.                                      *)
VecPopFront(v) ==
    IF v = <<>> THEN [ret |-> None, self |-> v]
    ELSE [ret |-> Some(Head(v)), self |-> Tail(v)]

(* Vec::pop                                                                 *)
VecPop(v) ==
    IF v = <<>> THEN [ret |-> None, self |-> v]
    ELSE [ret |-> Some(Last(v)), self |-> SubSeq(v, 1, Len(v) - 1)]

Exit == <<"Exit">>

(* The commands of the source's list, while-let.rs 423-430.                 *)
SourceCommands ==
    << <<"Start", "web-server">>, <<"Status", "web-server">>,
       <<"Stop", "database">>, <<"Restart", "cache">>,
       <<"Status", "cache">>, Exit >>

CommandPool == {SourceCommands[i] : i \in 1..Len(SourceCommands)}

(* The line a match arm prints for a command that is not Exit, 435-446.     *)
CommandLine(command) ==
    CASE command[1] = "Start" -> <<"Starting service: ", command[2]>>
      [] command[1] = "Stop" -> <<"Stopping service: ", command[2]>>
      [] command[1] = "Restart" -> <<"Restarting service: ", command[2]>>
      [] command[1] = "Status" -> <<"Status check for: ", command[2]>>

CmdInit ==
    /\ commands \in SeqsUpTo(CommandPool, MaxCommands) \cup {SourceCommands}
    /\ cmd_input = commands
    /\ cmd_taken = <<>>
    /\ cmd_printed = <<>>
    /\ cmd_pc = "loop"
    /\ BatchIdle
    /\ ScanIdle
    /\ PeekIdle
    /\ CursorIdle
    /\ PipeIdle
    /\ TryIdle
    /\ CombIdle
    /\ SlotIdle
    /\ EvIdle
    /\ NegIdle
    /\ CondIdle

(* commands.pop() gives None: the loop ends.                                *)
CmdExhausted ==
    /\ cmd_pc = "loop"
    /\ VecPop(commands).ret = None
    /\ cmd_pc' = "done"
    /\ UNCHANGED <<commands, cmd_input, cmd_taken, cmd_printed>>
    /\ UNCHANGED notCmd

(* An Exit that does not leave the loop.                                    *)
CmdExitContinues ==
    /\ cmd_pc = "loop"
    /\ VecPop(commands).ret = Some(Exit)
    /\ commands' = VecPop(commands).self
    /\ cmd_taken' = Append(cmd_taken, Exit)
    /\ cmd_printed' = cmd_printed \o << <<"Exit command received">>,
                                       <<"Gracefully shutting down...">> >>
    /\ UNCHANGED <<cmd_input, cmd_pc>>
    /\ UNCHANGED notCmd

(* The Exit arm, 447-451: two lines, then break.                            *)
CmdExit ==
    /\ cmd_pc = "loop"
    /\ VecPop(commands).ret = Some(Exit)
    /\ commands' = VecPop(commands).self
    /\ cmd_taken' = Append(cmd_taken, Exit)
    /\ cmd_printed' = cmd_printed \o << <<"Exit command received">>,
                                       <<"Gracefully shutting down...">> >>
    /\ cmd_pc' = "done"
    /\ UNCHANGED cmd_input
    /\ UNCHANGED notCmd

(* The Start, Stop, Restart and Status arms, 435-446.                       *)
CmdService ==
    /\ cmd_pc = "loop"
    /\ VecPop(commands).ret # None
    /\ LET command == VecPop(commands).ret[1]
       IN /\ command # Exit
          /\ cmd_taken' = Append(cmd_taken, command)
          /\ cmd_printed' = Append(cmd_printed, CommandLine(command))
    /\ commands' = VecPop(commands).self
    /\ UNCHANGED <<cmd_input, cmd_pc>>
    /\ UNCHANGED notCmd

CmdNext ==
    \/ CmdExhausted
    \/ CmdExit
    \/ CmdService

CmdSpec == CmdInit /\ [][CmdNext]_vars

----------------------------------------------------------------------------
(* The event-processing loop. An event is <<variant, fields...>>; amounts   *)
(* are held in cents.                                                       *)

max_errors == 2

(* The events of the source's list, while-let.rs 477-504.                   *)
SourceEvents ==
    << <<"UserLogin", 1, 1000>>,
       <<"Purchase", 1, 2999, 1001>>,
       <<"Error", "Connection timeout", 1002>>,
       <<"Purchase", 2, 4999, 1003>>,
       <<"UserLogout", 1, 1004>>,
       <<"Error", "Database unreachable", 1005>> >>

EventPool == {SourceEvents[i] : i \in 1..Len(SourceEvents)}

(* The line printed for an event, 512-530.                                  *)
EventLine(event) ==
    CASE event[1] = "UserLogin" -> <<"logged in", event[2], event[3]>>
      [] event[1] = "UserLogout" -> <<"logged out", event[2], event[3]>>
      [] event[1] = "Purchase" -> <<"purchased", event[2], event[3], event[4]>>
      [] event[1] = "Error" -> <<"Error at", event[3], event[2]>>

EvInit ==
    /\ events \in SeqsUpTo(EventPool, MaxEvents) \cup {SourceEvents}
    /\ ev_input = events
    /\ ev_taken = <<>>
    /\ ev_printed = <<>>
    /\ error_count = 0
    /\ ev_pc = "loop"
    /\ BatchIdle
    /\ ScanIdle
    /\ PeekIdle
    /\ CursorIdle
    /\ PipeIdle
    /\ TryIdle
    /\ CombIdle
    /\ SlotIdle
    /\ CmdIdle
    /\ NegIdle
    /\ CondIdle

(* events.pop() gives None: the loop ends.                                  *)
EvExhausted ==
    /\ ev_pc = "loop"
    /\ VecPop(events).ret = None
    /\ ev_pc' = "done"
    /\ UNCHANGED <<events, ev_input, ev_taken, ev_printed, error_count>>
    /\ UNCHANGED notEv

(* The UserLogin, UserLogout and Purchase arms, 512-527.                    *)
EvHandle ==
    /\ ev_pc = "loop"
    /\ VecPop(events).ret # None
    /\ LET event == VecPop(events).ret[1]
       IN /\ event[1] # "Error"
          /\ ev_taken' = Append(ev_taken, event)
          /\ ev_printed' = Append(ev_printed, EventLine(event))
    /\ events' = VecPop(events).self
    /\ UNCHANGED <<ev_input, error_count, ev_pc>>
    /\ UNCHANGED notEv

(* An Error arm that counts and prints but never stops the loop.            *)
EvErrorNeverStops ==
    /\ ev_pc = "loop"
    /\ VecPop(events).ret # None
    /\ LET event == VecPop(events).ret[1]
       IN /\ event[1] = "Error"
          /\ ev_taken' = Append(ev_taken, event)
          /\ error_count' = error_count + 1
          /\ ev_printed' = Append(ev_printed, EventLine(event))
    /\ events' = VecPop(events).self
    /\ UNCHANGED <<ev_input, ev_pc>>
    /\ UNCHANGED notEv

(* The Error arm, 528-537: count, print, and break once error_count has     *)
(* reached max_errors.                                                      *)
EvError ==
    /\ ev_pc = "loop"
    /\ VecPop(events).ret # None
    /\ LET event == VecPop(events).ret[1]
           remaining == VecPop(events).self
       IN /\ event[1] = "Error"
          /\ ev_taken' = Append(ev_taken, event)
          /\ error_count' = error_count + 1
          /\ IF error_count + 1 >= max_errors
             THEN /\ ev_printed' = ev_printed \o
                        << EventLine(event),
                           <<"Too many errors! Stopping event processing.">>,
                           <<"Remaining events: ", Len(remaining)>> >>
                  /\ ev_pc' = "done"
             ELSE /\ ev_printed' = Append(ev_printed, EventLine(event))
                  /\ ev_pc' = ev_pc
    /\ events' = VecPop(events).self
    /\ UNCHANGED ev_input
    /\ UNCHANGED notEv

EvNext ==
    \/ EvExhausted
    \/ EvHandle
    \/ EvError

EvSpec == EvInit /\ [][EvNext]_vars

----------------------------------------------------------------------------
(* The loop that processes until a negative number.                         *)

(* while-let.rs 314                                                         *)
SourceData == <<1, 2, 3, -1, 5, 6, -2, 8, 9, 10>>

DataPool == {-2, -1, 0, 1, 5}

NegInit ==
    /\ data \in SeqsUpTo(DataPool, MaxData) \cup {SourceData}
    /\ neg_input = data
    /\ neg_processed = <<>>
    /\ neg_found = None
    /\ neg_pc = "loop"
    /\ BatchIdle
    /\ ScanIdle
    /\ PeekIdle
    /\ CursorIdle
    /\ PipeIdle
    /\ TryIdle
    /\ CombIdle
    /\ SlotIdle
    /\ CmdIdle
    /\ EvIdle
    /\ CondIdle

(* data.pop() gives None: the loop ends.                                    *)
NegExhausted ==
    /\ neg_pc = "loop"
    /\ VecPop(data).ret = None
    /\ neg_pc' = "done"
    /\ UNCHANGED <<data, neg_input, neg_processed, neg_found>>
    /\ UNCHANGED notNeg

(* A stop that treats zero as negative.                                     *)
NegStopAtNonPositive ==
    /\ neg_pc = "loop"
    /\ VecPop(data).ret # None
    /\ LET popped == VecPop(data).ret[1]
       IN /\ popped <= 0
          /\ neg_found' = Some(popped)
    /\ data' = VecPop(data).self
    /\ neg_pc' = "done"
    /\ UNCHANGED <<neg_input, neg_processed>>
    /\ UNCHANGED notNeg

(* 318-322: num < 0, two lines and break.                                   *)
NegStop ==
    /\ neg_pc = "loop"
    /\ VecPop(data).ret # None
    /\ LET popped == VecPop(data).ret[1]
       IN /\ popped < 0
          /\ neg_found' = Some(popped)
    /\ data' = VecPop(data).self
    /\ neg_pc' = "done"
    /\ UNCHANGED <<neg_input, neg_processed>>
    /\ UNCHANGED notNeg

(* 323: println!("  Processing: {}", num)                                   *)
NegProcess ==
    /\ neg_pc = "loop"
    /\ VecPop(data).ret # None
    /\ LET popped == VecPop(data).ret[1]
       IN /\ ~(popped < 0)
          /\ neg_processed' = Append(neg_processed, popped)
    /\ data' = VecPop(data).self
    /\ UNCHANGED <<neg_input, neg_found, neg_pc>>
    /\ UNCHANGED notNeg

NegNext ==
    \/ NegExhausted
    \/ NegStop
    \/ NegProcess

NegSpec == NegInit /\ [][NegNext]_vars

----------------------------------------------------------------------------
(* The loop with conditional processing.                                    *)

(* while-let.rs 97                                                          *)
SourceCondNumbers == <<1, 2, 3, 4, 5, 6, 7, 8>>

CondPool == {4, 5, 6}

(* 105-110: if let Some(next) = iter.next() { println!(...) }, on an        *)
(* iterator and the lines printed so far.                                   *)
SpecialNext(st) ==
    IF IterNext(st.it).ret = None THEN st
    ELSE [it |-> IterNext(st.it).it,
          printed |-> Append(st.printed,
                             <<"Special processing", IterNext(st.it).ret[1]>>)]

CondInit ==
    /\ cond_numbers \in SeqsUpTo(CondPool, MaxCond) \cup {SourceCondNumbers}
    /\ cond_iter = cond_numbers
    /\ cond_printed = <<>>
    /\ cond_pc = "loop"
    /\ BatchIdle
    /\ ScanIdle
    /\ PeekIdle
    /\ CursorIdle
    /\ PipeIdle
    /\ TryIdle
    /\ CombIdle
    /\ SlotIdle
    /\ CmdIdle
    /\ EvIdle
    /\ NegIdle

(* iter.next() gives None: the loop ends.                                   *)
CondExhausted ==
    /\ cond_pc = "loop"
    /\ IterNext(cond_iter).ret = None
    /\ cond_pc' = "done"
    /\ UNCHANGED <<cond_numbers, cond_iter, cond_printed>>
    /\ UNCHANGED notCond

(* 100-101 with num # 5: one line.                                          *)
CondGot ==
    /\ cond_pc = "loop"
    /\ IterNext(cond_iter).ret # None
    /\ IterNext(cond_iter).ret[1] # 5
    /\ cond_iter' = IterNext(cond_iter).it
    /\ cond_printed' = Append(cond_printed, <<"Got", IterNext(cond_iter).ret[1]>>)
    /\ UNCHANGED <<cond_numbers, cond_pc>>
    /\ UNCHANGED notCond

(* A special processing that takes one number only.                         *)
CondFiveTakesOne ==
    /\ cond_pc = "loop"
    /\ IterNext(cond_iter).ret = Some(5)
    /\ LET st0 == [it |-> IterNext(cond_iter).it,
                   printed |-> cond_printed \o << <<"Got", 5>>, <<"Found 5!">> >>]
           st1 == SpecialNext(st0)
       IN /\ cond_iter' = st1.it
          /\ cond_printed' = st1.printed
    /\ UNCHANGED <<cond_numbers, cond_pc>>
    /\ UNCHANGED notCond

(* 100-111 with num = 5: the next two numbers, if there, are taken inside   *)
(* the body.                                                                *)
CondFive ==
    /\ cond_pc = "loop"
    /\ IterNext(cond_iter).ret = Some(5)
    /\ LET st0 == [it |-> IterNext(cond_iter).it,
                   printed |-> cond_printed \o << <<"Got", 5>>, <<"Found 5!">> >>]
           st2 == SpecialNext(SpecialNext(st0))
       IN /\ cond_iter' = st2.it
          /\ cond_printed' = st2.printed
    /\ UNCHANGED <<cond_numbers, cond_pc>>
    /\ UNCHANGED notCond

CondNext ==
    \/ CondExhausted
    \/ CondGot
    \/ CondFive

CondSpec == CondInit /\ [][CondNext]_vars

----------------------------------------------------------------------------
(* The two loops as the program runs them: a run of main executes each      *)
(* loop from its first iteration to its end, one step after the other, so   *)
(* a loop that can take a step takes it.                                    *)

LoopsInit == BatchInit \/ ScanInit

LoopsNext == BatchNext \/ ScanNext

LoopsFairSpec ==
    /\ LoopsInit
    /\ [][LoopsNext]_vars
    /\ WF_vars(BatchNext)
    /\ WF_vars(ScanNext)

----------------------------------------------------------------------------
(* Helpers for the statements about the printed batches.                    *)

RECURSIVE FlattenItems(_)
FlattenItems(bs) ==
    IF bs = <<>> THEN <<>> ELSE Head(bs).items \o FlattenItems(Tail(bs))

IsSourceRun == data_items = SourceItems /\ max_batch_size = SourceCap

----------------------------------------------------------------------------
(* C1: in the source run (capacity 30, "item1".."item7") every printed     *)
(* batch has size_bytes <= 30 unless it holds a single item.               *)
C1_SourceBatchesWithinCapacity ==
    IsSourceRun =>
        \A i \in 1..Len(printed) :
            \/ printed[i].size_bytes <= max_batch_size
            \/ Len(printed[i].items) = 1

(* C2: for every input and every capacity, once the loop has ended the     *)
(* items of the printed batches, concatenated in printing order, are the   *)
(* input sequence: nothing dropped, duplicated or reordered.               *)
C2_ConcatReproducesInput ==
    bpc = "done" => FlattenItems(printed) = data_items

C2_Witness ==
    /\ bpc = "done"
    /\ Len(printed) >= 2
    /\ max_batch_size > 0
    /\ \E i \in 1..Len(data_items) : Len(data_items[i]) >= max_batch_size
    /\ \E i \in 1..Len(data_items) : Len(data_items[i]) < max_batch_size

(* C3: for every item pulled after the first, if the batch in progress     *)
(* already has size_bytes >= capacity it is printed without the item and   *)
(* the item is the sole item of the new batch; otherwise the item is       *)
(* appended to the batch in progress and nothing is printed at that step.  *)
C3_BoundaryPolicy ==
    [][(bpc = "inner" /\ items_iter # <<>>) =>
          IF batch.size_bytes >= max_batch_size
          THEN /\ printed' = Append(printed, batch)
               /\ batch'.items = <<Head(items_iter)>>
               /\ batch'.size_bytes = Len(Head(items_iter))
          ELSE /\ printed' = printed
               /\ batch'.items = Append(batch.items, Head(items_iter))
               /\ batch'.size_bytes = batch.size_bytes + Len(Head(items_iter))
      ]_vars

C3_Witness ==
    /\ printed # <<>>
    /\ step.kind = "append"
    /\ Len(batch.items) >= 2

(* C4: at exhaustion the batch in progress is printed as the last batch,   *)
(* even below capacity; for a non-empty input this happens exactly once    *)
(* (every batch started has then been printed once) and nothing is printed *)
(* after it.                                                               *)
C4_FinalBatchState ==
    /\ bpc = "inner" => Len(printed) = batch_number - 1
    /\ (bpc = "done" /\ data_items # <<>>) =>
          /\ items_iter = <<>>
          /\ step.kind = "final"
          /\ printed # <<>>
          /\ Last(printed) = batch
          /\ Len(printed) = batch_number

C4_FinalBatchEmitted ==
    /\ []C4_FinalBatchState
    /\ [][bpc # "done"]_vars

C4_Witness ==
    /\ bpc = "done"
    /\ Len(printed) >= 2
    /\ batch.size_bytes < max_batch_size

(* C5: with capacity 0 the set-up fails at construction: no batch is ever  *)
(* built or printed.                                                       *)
C5_ZeroCapacityBuildsNoBatch ==
    max_batch_size = 0 =>
        /\ batch_number = 0
        /\ batch = DataBatchNew
        /\ printed = <<>>

----------------------------------------------------------------------------
(* Helpers for the statements about the printed runs.                      *)

RECURSIVE SumCounts(_)
SumCounts(rs) == IF rs = <<>> THEN 0 ELSE Head(rs)[2] + SumCounts(Tail(rs))

Copies(v, n) == [i \in 1..n |-> v]

RECURSIVE Expand(_)
Expand(rs) ==
    IF rs = <<>> THEN <<>>
    ELSE Copies(Head(rs)[1], Head(rs)[2]) \o Expand(Tail(rs))

SpecRuns == <<<<1, 2>>, <<2, 1>>, <<3, 3>>, <<4, 1>>>>

(* C6: for every finite input, once the scan has ended the counts of the   *)
(* printed pairs sum to the input length, and expanding each pair into     *)
(* count copies of its value, in printing order, gives the input back.     *)
C6_RunsReproduceInput ==
    spc = "done" =>
        /\ SumCounts(runs) = Len(numbers)
        /\ Expand(runs) = numbers

C6_Witness ==
    /\ spc = "done"
    /\ Len(runs) >= 2
    /\ \E i \in 1..Len(runs) : runs[i][2] >= 2

(* C7: one pair per maximal run: [1,1,2,3,3,3,4] gives                     *)
(* [(1,2),(2,1),(3,3),(4,1)]; for every input two adjacent printed pairs   *)
(* never carry the same value and every count is at least 1.               *)
C7_OnePairPerMaximalRun ==
    /\ (spc = "done" /\ numbers = SpecNumbers) => runs = SpecRuns
    /\ \A i \in 1..Len(runs) : runs[i][2] >= 1
    /\ \A i \in 1..(Len(runs) - 1) : runs[i][1] # runs[i + 1][1]

C7_Witness ==
    /\ spc = "done"
    /\ numbers = SpecNumbers
    /\ Len(runs) = Len(SpecRuns)

----------------------------------------------------------------------------
(* Helpers for the statements about the peekable iterator.                  *)

RECURSIVE NextValues(_)
(* The values the next calls of a log returned, in order.                   *)
NextValues(log) ==
    IF log = <<>> THEN <<>>
    ELSE IF Head(log)[1] = "next" /\ Head(log)[2] # None
         THEN <<Head(log)[2][1]>> \o NextValues(Tail(log))
         ELSE NextValues(Tail(log))

(* The element of the backing sequence after the first k, as an Option.     *)
ElementAfter(elems, k) == IF k < Len(elems) THEN Some(elems[k + 1]) ELSE None

Called(op) == Len(pk_log') = Len(pk_log) + 1 /\ Last(pk_log')[1] = op

(* C8: a peek that follows a peek returns the same value, and a next that  *)
(* follows a peek returns that value too, which is the value a never       *)
(* peeked iterator over the same data returns at that point.               *)
C8_PeekIdempotent ==
    [][(pk_log # <<>> /\ Last(pk_log)[1] = "peek") =>
          /\ Called("peek") => Last(pk_log')[2] = Last(pk_log)[2]
          /\ Called("next") =>
                /\ Last(pk_log')[2] = Last(pk_log)[2]
                /\ Last(pk_log')[2] = IterNext(pk_plain).ret
      ]_vars

C8_Witness ==
    /\ Len(pk_log) >= 4
    /\ pk_log[Len(pk_log) - 3][1] = "next"
    /\ pk_log[Len(pk_log) - 2][1] = "peek"
    /\ pk_log[Len(pk_log) - 1][1] = "peek"
    /\ pk_log[Len(pk_log)][1] = "next"
    /\ pk_log[Len(pk_log)][2] # None

(* C9: under any interleaving of peek and next at most one element is      *)
(* buffered; an occupied buffer holds the element of the backing sequence  *)
(* that follows those already returned, and the next call returns it; the  *)
(* values returned by next are the backing sequence in order.              *)
C9_BufferState ==
    /\ Len(pk.peeked) <= 1
    /\ pk.peeked # <<>> =>
          Head(pk.peeked) = ElementAfter(pk_data, Len(NextValues(pk_log)))
    /\ NextValues(pk_log) = SubSeq(pk_data, 1, Len(NextValues(pk_log)))
    /\ \A i \in 1..Len(pk_log) :
          (pk_log[i][1] = "next" /\ pk_log[i][2] = None) =>
              NextValues(SubSeq(pk_log, 1, i)) = pk_data

C9_LookaheadInvariant ==
    /\ []C9_BufferState
    /\ [][(pk.peeked # <<>> /\ Called("next")) =>
             Last(pk_log')[2] = Head(pk.peeked)]_vars

C9_Witness ==
    /\ pk.peeked # <<>>
    /\ Head(pk.peeked) # None
    /\ Len(NextValues(pk_log)) >= 2
    /\ Len(pk_log) >= 5
    /\ pk_log[2][1] = "peek"

(* C10: once fetch_next, get_next or next_token has returned None, every   *)
(* later call on that stream returns None and leaves its index unchanged.  *)
HasReturnedNone(w) == \E i \in 1..Len(fetched[w]) : fetched[w][i] = None

CalledOn(w) == Len(fetched[w]') = Len(fetched[w]) + 1

C10_ExhaustionIsTerminal ==
    [][/\ (HasReturnedNone("source") /\ CalledOn("source")) =>
             Last(fetched.source') = None /\ source'.index = source.index
       /\ (HasReturnedNone("queue") /\ CalledOn("queue")) =>
             Last(fetched.queue') = None /\ queue'.index = queue.index
       /\ (HasReturnedNone("stream") /\ CalledOn("stream")) =>
             Last(fetched.stream') = None /\ stream'.index = stream.index
      ]_vars

C10_Witness ==
    /\ \A w \in {"source", "queue", "stream"} :
          /\ Len(fetched[w]) >= 3
          /\ fetched[w][1] # None
          /\ fetched[w][Len(fetched[w]) - 1] = None
          /\ fetched[w][Len(fetched[w])] = None

----------------------------------------------------------------------------
(* Statements about the parse -> validate -> format chain. pl_chain[2] is   *)
(* what the parse step returned, pl_chain[3] the validate step, and        *)
(* pl_chain[4] the map step, the value the final unwrap_or_else collapses. *)

PipeDone == pl_pc = "done"

AdultAge == 18

(* C11: every input that parses into a record whose age is below 18 ends   *)
(* in the fallback "Invalid person".                                       *)
C11_Under18GivesFallback ==
    (PipeDone /\ pl_chain[2] # None /\ pl_chain[2][1].age < AdultAge) =>
        pl_result = InvalidPerson

(* C12: format_person is called only with a record that the parse and the  *)
(* validate step both returned, and at most once; when either step         *)
(* returned None it is never called and the result is "Invalid person".    *)
C12_FormatOnlyAfterValidation ==
    /\ Len(pl_formatted) <= 1
    /\ \A i \in 1..Len(pl_formatted) :
          /\ pl_chain[2] = Some(pl_formatted[i])
          /\ pl_chain[3] = Some(pl_formatted[i])
    /\ (PipeDone /\ (pl_chain[2] = None \/ pl_chain[3] = None)) =>
          /\ pl_formatted = <<>>
          /\ pl_result = InvalidPerson
    /\ (PipeDone /\ pl_chain[2] # None /\ pl_chain[3] # None) =>
          Len(pl_formatted) = 1

C12_Witness ==
    /\ PipeDone
    /\ pl_chain[2] # None
    /\ pl_chain[3] = None
    /\ pl_chain[2][1].name # <<>>

(* The value the chain holds before its collapse, for a given input.       *)
PreCollapse(input) ==
    OptionMap(AndThen(AndThen(Some(input), <<"parse_user_input">>).ret,
                      <<"validate_person">>).ret,
              <<"format_person">>).ret

ExpectedOutput(name, age, email) ==
    IF email = <<>>
    THEN name \o <<" ", "(">> \o FormatU32(age) \o <<")">>
    ELSE name \o <<" ", "(">> \o FormatU32(age) \o <<")", " ", "-", " ">> \o email

C14_ValidInputIsFormatted ==
    /\ (PipeDone /\ pl_input = InputAlice) => pl_result = OutputAlice
    /\ (PipeDone /\ pl_input = InputBob) => pl_result = OutputBob
    /\ PipeDone =>
          LET parts == Split(pl_input)
          IN (/\ Len(parts) = 3
              /\ Trim(parts[1]) # <<>>
              /\ ParseU32(Trim(parts[2])) # None
              /\ pl_chain[3] # None) =>
                 /\ pl_result = ExpectedOutput(Trim(parts[1]),
                                               ParseU32(Trim(parts[2]))[1],
                                               Trim(parts[3]))
                 /\ pl_result # InvalidPerson

C14_Witness ==
    /\ PipeDone
    /\ Len(Split(pl_input)) = 3
    /\ pl_input \notin {InputAlice, InputBob}
    /\ pl_chain[3] # None
    /\ pl_chain[3][1].email # None
    /\ Head(Split(pl_input)[1]) = " "
    /\ pl_result # InvalidPerson

----------------------------------------------------------------------------
(* C15: in pick_choice and print_msg, when get_choice / Adult::new fails   *)
(* nothing is printed and the function returns that same error; when it    *)
(* succeeds the line is printed exactly once and Ok(()) is returned.       *)
C15_TryShortCircuits ==
    /\ rt_out # <<>> => IsOk(rt_stage)
    /\ (rt_pc = "done" /\ IsErr(rt_stage)) =>
          /\ rt_out = <<>>
          /\ rt_ret = rt_stage
    /\ (rt_pc = "done" /\ IsOk(rt_stage)) =>
          /\ Len(rt_out) = 1
          /\ rt_ret = Ok(Unit)

C15_Witness ==
    /\ rt_pc = "done"
    /\ rt_fn = "pick_choice"
    /\ rt_args = <<"invalid_choice">>
    /\ rt_ret = Err("Invalid choice")

----------------------------------------------------------------------------
(* Statements about single combinator calls. co_in[1] is the receiver.      *)

CombDone(op) == co_op = op /\ co_pc = "done"

(* C16: map over Some(x) gives Some(f(x)) and calls f exactly once, with   *)
(* x; map over None gives None and never calls f. Checked for |x| x * 2    *)
(* (Some(42) gives Some(84)) and for |user_id| User { user_id, name }.     *)
C16_MapAppliesOnce ==
    /\ CombDone("map_double") =>
          IF co_in[1] = None
          THEN co_out[1] = None /\ co_calls = <<>>
          ELSE /\ co_out[1] = Some(2 * co_in[1][1])
               /\ co_calls = <<<<<<"double">>, co_in[1][1]>>>>
    /\ (CombDone("map_double") /\ co_in[1] = Some(42)) => co_out[1] = Some(84)
    /\ CombDone("map_user") =>
          IF co_in[1] = None
          THEN co_out[1] = None /\ co_calls = <<>>
          ELSE /\ co_out[1] = Some([user_id |-> co_in[1][1], name |-> co_arg[1]])
               /\ co_calls = <<<<<<"make_user", co_arg[1]>>, co_in[1][1]>>>>

C16_Witness ==
    /\ CombDone("map_user")
    /\ co_arg[1] = <<"J", "A", "N", "E">>
    /\ co_out[1] # None
    /\ co_out[1][1].user_id = 2
    /\ Len(co_calls) = 1

(* C17: for every Option v, Some or None, v.map(identity) equals v.         *)
C17_MapIdentityLaw ==
    CombDone("map_identity") => co_out[1] = co_in[1]

C17_Witness ==
    /\ CombDone("map_identity")
    /\ co_in[1] # None
    /\ co_out[1] = co_in[1]

(* C18: zip gives Some((a, b)) exactly when the operands are Some(a) and   *)
(* Some(b); when either operand is None it gives None.                     *)
C18_ZipBothOrNone ==
    CombDone("zip") =>
        /\ (co_in[1] # None /\ co_in[2] # None) =>
              co_out[1] = Some(<<co_in[1][1], co_in[2][1]>>)
        /\ (co_in[1] = None \/ co_in[2] = None) => co_out[1] = None
        /\ co_out[1] # None => (co_in[1] # None /\ co_in[2] # None)

C18_Witness ==
    /\ CombDone("zip")
    /\ co_in[1] # None
    /\ co_in[2] = None
    /\ co_out[1] = None

(* C20: unwrap_or_else on Some(v) returns v and never runs the fallback    *)
(* closure (nothing is printed); on None it runs the closure exactly once  *)
(* and returns its result.                                                 *)
C20_FallbackIsLazy ==
    CombDone("unwrap_or_else") =>
        IF co_in[1] # None
        THEN co_out[1] = co_in[1][1] /\ co_calls = <<>>
        ELSE /\ co_out[1] = "Computed Default"
             /\ co_calls = <<<<<<"expensive_default">>, Unit>>>>

C20_Witness ==
    /\ CombDone("unwrap_or_else")
    /\ co_in[1] = Some("Value")
    /\ co_out[1] = "Value"
    /\ co_calls = <<>>

----------------------------------------------------------------------------
(* Statements about the mutable slot.                                       *)

(* What the call logged last did: it returned the content the slot had     *)
(* before it, and left None (take) or Some(v) (replace(v)) behind.          *)
SlotCallEffect ==
    sl_log' # sl_log =>
        LET call == Last(sl_log')
        IN /\ call.ret = maybe_value
           /\ call.op = "take" => maybe_value' = None
           /\ call.op = "replace" => maybe_value' = call.arg

(* C19: under any sequence of take and replace calls, take returns the     *)
(* slot's current content and leaves the slot None, so that a take right   *)
(* after a take returns None; replace(v) returns the slot's previous       *)
(* content and leaves the slot Some(v).                                    *)
C19_TakeAndReplace ==
    /\ [][SlotCallEffect]_vars
    /\ [](\A i \in 1..(Len(sl_log) - 1) :
              (sl_log[i].op = "take" /\ sl_log[i + 1].op = "take") =>
                  sl_log[i + 1].ret = None)
    /\ [](\A i \in 1..(Len(sl_log) - 1) :
              (sl_log[i].op = "replace" /\ sl_log[i + 1].op = "take") =>
                  sl_log[i + 1].ret = sl_log[i].arg)

C19_Witness ==
    /\ Len(sl_log) = 3
    /\ sl_log[1] = [op |-> "take", arg |-> None, ret |-> Some("Original")]
    /\ sl_log[2] = [op |-> "take", arg |-> None, ret |-> None]
    /\ sl_log[3] = [op |-> "replace", arg |-> Some("New Value"), ret |-> None]
    /\ maybe_value = Some("New Value")

(* The sources the chain has called so far, in call order.                  *)
SourcesCalled == [i \in 1..Len(co_calls) |-> co_calls[i][1][1]]

(* C21: in the chain cache -> database -> API, the database is asked only  *)
(* after a cache miss and the API only after a miss of both; the first     *)
(* Some is the result, unchanged, and no source after it is called.        *)
C21_LaterSourceOnlyAfterMisses ==
    co_op = "or_else" =>
        /\ (\E i \in 1..Len(co_calls) : SourcesCalled[i] = "fetch_from_database")
              => co_arg[1] = None
        /\ (\E i \in 1..Len(co_calls) : SourcesCalled[i] = "fetch_from_api")
              => (co_arg[1] = None /\ co_arg[2] = None)
        /\ co_pc = "done" =>
              CASE co_arg[1] # None ->
                     /\ co_out[1] = co_arg[1]
                     /\ SourcesCalled = <<"get_cached_data">>
                [] co_arg[2] # None ->
                     /\ co_out[1] = co_arg[2]
                     /\ SourcesCalled = <<"get_cached_data", "fetch_from_database">>
                [] OTHER ->
                     /\ co_out[1] = co_arg[3]
                     /\ SourcesCalled = <<"get_cached_data", "fetch_from_database",
                                          "fetch_from_api">>

C21_Witness ==
    /\ CombDone("or_else")
    /\ co_arg = <<get_cached_data, fetch_from_database, fetch_from_api>>
    /\ co_out[1] = Some("Data from database")
    /\ SourcesCalled = <<"get_cached_data", "fetch_from_database">>

----------------------------------------------------------------------------
(* Statements about the loops that pop from a Vec.                          *)

Reverse(s) == [i \in 1..Len(s) |-> s[Len(s) + 1 - i]]

(* C22: the command processor takes the commands last inserted first and   *)
(* stops at the first Exit it takes; what is still in the list then was    *)
(* never processed. On the source's list, whose last command is Exit, only *)
(* Exit is taken and no service command is processed.                      *)
C22_StopsAtFirstExit ==
    /\ cmd_pc \in {"loop", "done"} =>
          /\ commands \o Reverse(cmd_taken) = cmd_input
          /\ \A i \in 1..(Len(cmd_taken) - 1) : cmd_taken[i] # Exit
          /\ \A i \in 1..Len(cmd_printed) :
                Len(cmd_printed[i]) = 2 =>
                    \E j \in 1..Len(cmd_taken) :
                        cmd_taken[j] # Exit /\ cmd_printed[i] = CommandLine(cmd_taken[j])
          /\ Len(cmd_printed) =
                Len(cmd_taken) + (IF cmd_taken # <<>> /\ Last(cmd_taken) = Exit THEN 1 ELSE 0)
    /\ cmd_pc = "loop" => \A i \in 1..Len(cmd_taken) : cmd_taken[i] # Exit
    /\ cmd_pc = "done" =>
          IF \E i \in 1..Len(cmd_input) : cmd_input[i] = Exit
          THEN cmd_taken # <<>> /\ Last(cmd_taken) = Exit
          ELSE commands = <<>>
    /\ (cmd_pc = "done" /\ cmd_input # <<>> /\ Last(cmd_input) = Exit) =>
          /\ cmd_taken = <<Exit>>
          /\ commands = SubSeq(cmd_input, 1, Len(cmd_input) - 1)
          /\ cmd_printed = << <<"Exit command received">>,
                              <<"Gracefully shutting down...">> >>

C22_Witness ==
    /\ cmd_pc = "done"
    /\ cmd_input = SourceCommands
    /\ Len(commands) = 5
    /\ cmd_taken = <<Exit>>

ErrorsIn(s) == Cardinality({i \in 1..Len(s) : s[i][1] = "Error"})

(* C23: error_count never exceeds max_errors; the events are handled last  *)
(* inserted first; the loop stops right after the max_errors-th Error      *)
(* event, and whatever is still in the list then was never handled.        *)
C23_ErrorCountBounded ==
    ev_pc \in {"loop", "done"} =>
        /\ error_count <= max_errors
        /\ error_count = ErrorsIn(ev_taken)
        /\ events \o Reverse(ev_taken) = ev_input
        /\ ev_pc = "loop" =>
              /\ error_count < max_errors
              /\ ev_printed = [i \in 1..Len(ev_taken) |-> EventLine(ev_taken[i])]
        /\ ev_pc = "done" =>
              IF error_count = max_errors
              THEN /\ Last(ev_taken)[1] = "Error"
                   /\ ErrorsIn(SubSeq(ev_taken, 1, Len(ev_taken) - 1)) = max_errors - 1
                   /\ Len(ev_printed) = Len(ev_taken) + 2
                   /\ Last(ev_printed) = <<"Remaining events: ", Len(events)>>
              ELSE /\ events = <<>>
                   /\ ev_printed = [i \in 1..Len(ev_taken) |-> EventLine(ev_taken[i])]

C23_Witness ==
    /\ ev_pc = "done"
    /\ ev_input = SourceEvents
    /\ error_count = 2
    /\ Len(ev_taken) = 4
    /\ events = SubSeq(SourceEvents, 1, 2)

(* The positions of the negative numbers of the input.                      *)
NegativeAt == {i \in 1..Len(neg_input) : neg_input[i] < 0}

LastNegative == CHOOSE i \in NegativeAt : \A j \in NegativeAt : j <= i

(* C24: the loop pops from the end and stops at the first negative number  *)
(* it pops; that number is removed but not processed and the list left is  *)
(* the input prefix before it. Without a negative number every element is  *)
(* processed and the list ends empty.                                      *)
C24_StopsAtFirstNegativePopped ==
    /\ neg_pc = "loop" =>
          /\ data \o Reverse(neg_processed) = neg_input
          /\ neg_found = None
    /\ neg_pc = "done" =>
          IF NegativeAt # {}
          THEN /\ neg_found = Some(neg_input[LastNegative])
               /\ data = SubSeq(neg_input, 1, LastNegative - 1)
               /\ neg_processed =
                     Reverse(SubSeq(neg_input, LastNegative + 1, Len(neg_input)))
          ELSE /\ neg_found = None
               /\ data = <<>>
               /\ neg_processed = Reverse(neg_input)
    /\ \A i \in 1..Len(neg_processed) : neg_processed[i] >= 0

C24_Witness ==
    /\ neg_pc = "done"
    /\ neg_input = SourceData
    /\ neg_found = Some(-2)
    /\ neg_processed = <<10, 9, 8>>
    /\ data = <<1, 2, 3, -1, 5, 6>>

----------------------------------------------------------------------------
(* Statements about the loop with conditional processing.                   *)

IsConsumption(line) == Len(line) = 2

(* The lines that show a number, in order: the k-th shows how the k-th      *)
(* number taken from the iterator was consumed.                             *)
Consumed == SelectSeq(cond_printed, IsConsumption)

ReachedOuterBody(k) == k <= Len(Consumed) /\ Consumed[k][1] = "Got"

SpeciallyProcessed(k) == k <= Len(Consumed) /\ Consumed[k][1] = "Special processing"

(* Every number is consumed exactly once, in input order.                   *)
ConsumedOnceInOrder ==
    /\ [k \in 1..Len(Consumed) |-> Consumed[k][2]]
          = SubSeq(cond_numbers, 1, Len(Consumed))
    /\ cond_iter = SubSeq(cond_numbers, Len(Consumed) + 1, Len(cond_numbers))
    /\ cond_pc = "done" => Len(Consumed) = Len(cond_numbers)

(* C25 as stated: every number is consumed exactly once, in order, and the *)
(* up to two numbers right after any 5 of the input are specially          *)
(* processed and never reach the outer loop body.                          *)
C25_AfterAnyFiveIsSpecial ==
    cond_pc = "done" =>
        /\ ConsumedOnceInOrder
        /\ \A k \in 1..Len(cond_numbers) :
              cond_numbers[k] = 5 =>
                  \A j \in {k + 1, k + 2} :
                      j <= Len(cond_numbers) => SpeciallyProcessed(j)

(* C25, amended: every number is consumed exactly once, in order; the up   *)
(* to two numbers right after a 5 that reaches the outer loop body are     *)
(* specially processed and never reach the outer loop body, even when one  *)
(* of them is 5; every other number reaches the outer loop body.           *)
C25_AfterOuterFiveIsSpecial ==
    cond_pc \in {"loop", "done"} =>
        /\ ConsumedOnceInOrder
        /\ \A k \in 1..Len(Consumed) :
              SpeciallyProcessed(k) <=>
                  \/ k > 1 /\ ReachedOuterBody(k - 1) /\ cond_numbers[k - 1] = 5
                  \/ k > 2 /\ ReachedOuterBody(k - 2) /\ cond_numbers[k - 2] = 5
        /\ \A k \in 1..Len(Consumed) :
              ReachedOuterBody(k) \/ SpeciallyProcessed(k)

C25_Witness ==
    /\ cond_pc = "done"
    /\ cond_numbers = <<5, 5, 4, 5>>
    /\ SpeciallyProcessed(2)
    /\ SpeciallyProcessed(3)
    /\ ReachedOuterBody(4)

----------------------------------------------------------------------------
(* Statements about Adult::new.                                             *)

(* C26: Adult::new(age, name) is Ok of an Adult with that age and name     *)
(* exactly when age > 21, so that 21 itself is rejected; otherwise it is   *)
(* the error "Sorry you're under age" and no Adult is built.               *)
C26_AdultOnlyAbove21 ==
    (rt_fn = "print_msg" /\ rt_pc \in {"try", "return", "done"}) =>
        /\ rt_args[1] >= 22 =>
              rt_stage = Ok([age |-> rt_args[1], name |-> rt_args[2]])
        /\ rt_args[1] <= 21 => rt_stage = Err("Sorry you're under age")
        /\ IsOk(rt_stage) <=> rt_args[1] > 21

C26_Witness ==
    /\ rt_fn = "print_msg"
    /\ rt_pc = "try"
    /\ rt_args = <<21, "John">>
    /\ rt_stage = Err("Sorry you're under age")

----------------------------------------------------------------------------
(* Statements about the size of the batches.                                *)

RECURSIVE SizeOf(_)
(* The sum of the lengths of a sequence of items.                           *)
SizeOf(items) ==
    IF items = <<>> THEN 0 ELSE Len(Head(items)) + SizeOf(Tail(items))

(* The i-th printed batch is not the one printed at the end of the input.   *)
PrintedBeforeFinal(i) == i < Len(printed) \/ bpc # "done"

(* C27: for every positive capacity every printed batch holds at least one *)
(* item, and every batch printed before the final one has a size >=        *)
(* capacity while its size without its last item is < capacity, so that it *)
(* overshoots the capacity by less than the size of its last item.         *)
C27_OvershootBelowLastItem ==
    max_batch_size > 0 =>
        \A i \in 1..Len(printed) :
            /\ printed[i].items # <<>>
            /\ PrintedBeforeFinal(i) =>
                  /\ SizeOf(printed[i].items) >= max_batch_size
                  /\ SizeOf(SubSeq(printed[i].items, 1, Len(printed[i].items) - 1))
                        < max_batch_size
                  /\ SizeOf(printed[i].items) - max_batch_size
                        < Len(Last(printed[i].items))

C27_Witness ==
    /\ bpc = "done"
    /\ max_batch_size > 0
    /\ Len(printed) >= 2
    /\ Len(printed[1].items) >= 2
    /\ SizeOf(printed[1].items) > max_batch_size

(* Every DataBatch built so far has size_bytes equal to the sum of the     *)
(* lengths of its items.                                                   *)
SizeIsSumOfLengths ==
    /\ batch.size_bytes = SizeOf(batch.items)
    /\ \A i \in 1..Len(printed) : printed[i].size_bytes = SizeOf(printed[i].items)

(* What the add of the step just taken did to the batch it was called on.   *)
AddEffect ==
    /\ step'.kind = "append" =>
          /\ batch'.items = Append(batch.items, step'.item)
          /\ batch'.size_bytes = batch.size_bytes + Len(step'.item)
    /\ step'.kind \in {"first", "rollover"} =>
          /\ batch'.items = <<step'.item>>
          /\ batch'.size_bytes = Len(step'.item)

(* C28: in every reachable state size_bytes of a DataBatch is the sum of   *)
(* the lengths of its items; a new batch has no items and size 0; add      *)
(* appends the item last, leaves the earlier items as they were and grows  *)
(* size_bytes by exactly the length of the item.                           *)
C28_SizeTracksItems ==
    /\ []SizeIsSumOfLengths
    /\ [](DataBatchNew.items = <<>> /\ DataBatchNew.size_bytes = 0)
    /\ [][AddEffect]_vars

C28_Witness ==
    /\ step.kind = "append"
    /\ Len(batch.items) = 3
    /\ batch.size_bytes = 6
    /\ batch.items[1] # batch.items[2]
    /\ batch.items[2] # batch.items[3]

----------------------------------------------------------------------------
(* Statements about the cursor of DataSource.                               *)

PresentResults(w) == SelectSeq(fetched[w], LAMBDA r : r # None)

(* The cursor is within 0..n and counts the Present results; the k-th      *)
(* result is the k-th element for k <= n and None after that.              *)
CursorState ==
    /\ 0 <= source.index
    /\ source.index <= Len(source.data)
    /\ source.index = Len(PresentResults("source"))
    /\ \A k \in 1..Len(fetched.source) :
          fetched.source[k] =
              IF k <= Len(source.data) THEN Some(source.data[k]) ELSE None

(* The cursor moves by one with a Present result and not at all otherwise. *)
CursorMove ==
    IF CalledOn("source") /\ Last(fetched.source') # None
    THEN source'.index = source.index + 1
    ELSE source'.index = source.index

(* C29: for a DataSource over n elements the cursor stays within 0..n,     *)
(* grows by exactly 1 with each Present result and never otherwise; the    *)
(* k-th Present result is the k-th element, and exactly n Present results  *)
(* come before the first None.                                             *)
C29_CursorCountsPresentResults ==
    /\ []CursorState
    /\ [][CursorMove /\ source'.data = source.data]_vars

C29_Witness ==
    /\ Len(source.data) = 2
    /\ source.index = 2
    /\ Len(fetched.source) = 3
    /\ fetched.source[1] = Some(source.data[1])
    /\ fetched.source[2] = Some(source.data[2])
    /\ fetched.source[3] = None

----------------------------------------------------------------------------
(* Statements about the termination of the loops.                           *)

BatchLoopRunning == bpc \in {"outer", "inner"}

ScanLoopRunning == spc \in {"outer", "peek"}

(* The batch loop has stopped and every item is in a printed batch.         *)
BatchLoopStopped ==
    /\ bpc = "done"
    /\ items_iter = <<>>
    /\ FlattenItems(printed) = data_items

(* The scan has stopped and every number has been counted in a run.         *)
ScanLoopStopped ==
    /\ spc = "done"
    /\ iter.iter = <<>>
    /\ iter.peeked = <<>>
    /\ SumCounts(runs) = Len(numbers)

(* A loop stops only in a step where next() gives None.                     *)
StopsOnNone ==
    /\ (BatchLoopRunning /\ bpc' = "done") => IterNext(items_iter).ret = None
    /\ (ScanLoopRunning /\ spc' = "done") => PeekableNext(iter).ret = None

(* C30: on every finite input the run-length scan and the batch loop both  *)
(* terminate: each eventually gets None from next() and stops, with every  *)
(* element consumed.                                                       *)
C30_LoopsTerminate ==
    /\ BatchLoopRunning ~> BatchLoopStopped
    /\ ScanLoopRunning ~> ScanLoopStopped
    /\ [][StopsOnNone]_vars

C30_Witness ==
    /\ BatchLoopStopped
    /\ data_items = SourceItems
    /\ max_batch_size = SourceCap
    /\ Len(printed) = 2
    /\ ScanIdle

====
